---- MODULE Spec2Model ----
(***************************************************************************)
(* A model of the ethproofs-api crate: the CreateClusterRequest builder    *)
(* and its validation (rpc/clusters.rs), the request model (request.rs)    *)
(* and the client's generic call pipeline (client.rs).                     *)
(***************************************************************************)
EXTENDS Integers, Sequences, FiniteSets, TLC

VARIABLES
    builder,    \* the CreateClusterRequestBuilder being filled in
    built,      \* Option<Result<CreateClusterRequest, CreateClusterRequestError>>
    client,     \* the shared EthProofsClient: base_url and api_key
    ctor,       \* the arguments the client was constructed with
    calls,      \* the state of each invocation of call(), by call id
    log,        \* the order in which the calls started and completed
    service,    \* the remote service: the requests it has processed
    narrowing,  \* an EthProofsResponse value and the outcome of narrowing it
    decoded,    \* a request read from JSON: the text, the value, the path derived
    given       \* per builder field, the argument of the latest call of its setter

rvars == <<narrowing, decoded>>
bvars == <<builder, built, given>>
cvars == <<client, ctor, calls, log, service>>
vars == <<builder, built, client, ctor, calls, log, service, narrowing, decoded, given>>

(***************************************************************************)
(* Option<T>: None is the empty tuple, Some(v) the one-element tuple.      *)
(***************************************************************************)
None == << >>
Some(v) == <<v>>
IsSome(o) == Len(o) = 1
IsNone(o) == Len(o) = 0
Unwrap(o) == o[1]
is_some_and(o, P(_)) == IsSome(o) /\ P(o[1])
map_or(o, d, F(_)) == IF IsSome(o) THEN F(o[1]) ELSE d

(***************************************************************************)
(* A String is modelled by its two lengths: the number of characters and   *)
(* the number of UTF-8 bytes.  String::len() is the byte length.           *)
(***************************************************************************)
Str(n) == [chars |-> n, bytes |-> n]
Wide(n) == [chars |-> n, bytes |-> 2 * n]
str_len(s) == s.bytes
str_is_empty(s) == s.bytes = 0
char_count(s) == s.chars

(***************************************************************************)
(* The limits build() compares against.                                    *)
(***************************************************************************)
NicknameMax == 50
DescriptionMax == 200
HardwareMax == 200
CpuModelMax == 200
GpuModelMax == 200
MemoryTypeMax == 200
NetworkMax == 500

(***************************************************************************)
(* CreateClusterRequestError, and the outcome of build().  A field name is *)
(* a tuple: <<name>> for "name", <<name, i>> for format!("name[{}]", i).   *)
(***************************************************************************)
MissingField(name) == [kind |-> "MissingField", field |-> <<name>>]
InvalidField(field, reason) ==
    [kind |-> "InvalidField", field |-> field, reason |-> reason]
MalformedRequest(reason) == [kind |-> "MalformedRequest", reason |-> reason]

Ok(v) == [tag |-> "Ok", value |-> v]
Err(e) == [tag |-> "Err", err |-> e]
Panic == [tag |-> "Panic"]
IsOk(r) == r.tag = "Ok"
IsErr(r) == r.tag = "Err"

MsgGpuLen == "gpu_models, gpu_count, and gpu_memory_gb must have the same length"
MsgMemLen == "memory_size_gb, memory_count, and memory_type must have the same length"
MsgMemEmpty == "memory_size_gb, memory_count, and memory_type must not be empty"
MsgPositive == "must be greater than 0"
MsgMax50 == "must be at most 50 characters"
MsgMax200 == "must be at most 200 characters"
MsgMax500 == "must be at most 500 characters"

(***************************************************************************)
(* CreateClusterRequestBuilder::default(): every field None.               *)
(***************************************************************************)
Builder_new ==
    [nickname |-> None, description |-> None, zkvm_version_id |-> None,
     hardware |-> None, cycle_type |-> None, proof_type |-> None,
     configuration |-> None]

(***************************************************************************)
(* build(), the GPU element loop: for (i, model) in gpu_models.iter()      *)
(* .enumerate().  i is 1-based here and reported 0-based.  v[i] on a       *)
(* vector shorter than i panics.  Each check yields None (go on) or        *)
(* Some(outcome) (return).                                                 *)
(***************************************************************************)
RECURSIVE gpu_loop(_, _)
gpu_loop(machine, i) ==
    LET gpu_models == Unwrap(machine.gpu_models) IN
    IF i > Len(gpu_models) THEN None
    ELSE IF str_len(gpu_models[i]) > GpuModelMax
    THEN Some(Err(InvalidField(<<"gpu_models", i - 1>>, MsgMax200)))
    ELSE IF IsSome(machine.gpu_count) /\ i > Len(Unwrap(machine.gpu_count))
    THEN Some(Panic)
    ELSE IF is_some_and(machine.gpu_count, LAMBDA v : v[i] = 0)
    THEN Some(Err(InvalidField(<<"gpu_count", i - 1>>, MsgPositive)))
    ELSE IF IsSome(machine.gpu_memory_gb) /\ i > Len(Unwrap(machine.gpu_memory_gb))
    THEN Some(Panic)
    ELSE IF is_some_and(machine.gpu_memory_gb, LAMBDA v : v[i] = 0)
    THEN Some(Err(InvalidField(<<"gpu_memory_gb", i - 1>>, MsgPositive)))
    ELSE gpu_loop(machine, i + 1)

\* check_gpu comparing gpu_count alone with gpu_models.
check_gpu_two_arrays(machine) ==
    LET gpu_len == map_or(machine.gpu_models, 0, LAMBDA v : Len(v)) IN
    IF map_or(machine.gpu_count, 0, LAMBDA v : Len(v)) # gpu_len
    THEN Some(Err(MalformedRequest(MsgGpuLen)))
    ELSE IF IsSome(machine.gpu_models) THEN gpu_loop(machine, 1)
    ELSE None

(***************************************************************************)
(* build(), the GPU checks of one machine: the three lengths, then the     *)
(* elements when gpu_models is present.                                    *)
(***************************************************************************)
check_gpu(machine) ==
    LET gpu_len == map_or(machine.gpu_models, 0, LAMBDA v : Len(v)) IN
    IF \/ map_or(machine.gpu_count, 0, LAMBDA v : Len(v)) # gpu_len
       \/ map_or(machine.gpu_memory_gb, 0, LAMBDA v : Len(v)) # gpu_len
    THEN Some(Err(MalformedRequest(MsgGpuLen)))
    ELSE IF IsSome(machine.gpu_models) THEN gpu_loop(machine, 1)
    ELSE None

(***************************************************************************)
(* build(), the memory element loop: for (i, &size) in memory_size_gb      *)
(* .iter().enumerate().                                                    *)
(***************************************************************************)
RECURSIVE memory_loop(_, _)
memory_loop(machine, i) ==
    IF i > Len(machine.memory_size_gb) THEN None
    ELSE IF machine.memory_size_gb[i] = 0
    THEN Some(Err(InvalidField(<<"memory_size_gb", i - 1>>, MsgPositive)))
    ELSE IF i > Len(machine.memory_count) THEN Some(Panic)
    ELSE IF machine.memory_count[i] = 0
    THEN Some(Err(InvalidField(<<"memory_count", i - 1>>, MsgPositive)))
    ELSE IF i > Len(machine.memory_type) THEN Some(Panic)
    ELSE IF str_len(machine.memory_type[i]) > MemoryTypeMax
    THEN Some(Err(InvalidField(<<"memory_type", i - 1>>, MsgMax200)))
    ELSE memory_loop(machine, i + 1)

\* check_memory comparing memory_count alone with memory_size_gb.
check_memory_count_only(machine) ==
    LET mem_len == Len(machine.memory_size_gb) IN
    IF Len(machine.memory_count) # mem_len
    THEN Some(Err(MalformedRequest(MsgMemLen)))
    ELSE IF mem_len = 0
    THEN Some(Err(MalformedRequest(MsgMemEmpty)))
    ELSE memory_loop(machine, 1)

\* check_memory without the test for empty arrays.
check_memory_allows_empty(machine) ==
    LET mem_len == Len(machine.memory_size_gb) IN
    IF Len(machine.memory_count) # mem_len \/ Len(machine.memory_type) # mem_len
    THEN Some(Err(MalformedRequest(MsgMemLen)))
    ELSE memory_loop(machine, 1)

(***************************************************************************)
(* build(), the memory checks of one machine.                              *)
(***************************************************************************)
check_memory(machine) ==
    LET mem_len == Len(machine.memory_size_gb) IN
    IF Len(machine.memory_count) # mem_len \/ Len(machine.memory_type) # mem_len
    THEN Some(Err(MalformedRequest(MsgMemLen)))
    ELSE IF mem_len = 0
    THEN Some(Err(MalformedRequest(MsgMemEmpty)))
    ELSE memory_loop(machine, 1)

(***************************************************************************)
(* build(), the optional fields of one machine.                            *)
(***************************************************************************)
check_optional(machine) ==
    IF is_some_and(machine.storage_size_gb, LAMBDA s : s = 0)
    THEN Some(Err(InvalidField(<<"storage_size_gb">>, MsgPositive)))
    ELSE IF is_some_and(machine.total_tera_flops, LAMBDA f : f = 0)
    THEN Some(Err(InvalidField(<<"total_tera_flops">>, MsgPositive)))
    ELSE IF is_some_and(machine.network_between_machines,
                        LAMBDA n : str_len(n) > NetworkMax)
    THEN Some(Err(InvalidField(<<"network_between_machines">>, MsgMax500)))
    ELSE None

\* check_cpu with the cpu_cores check left out.
check_cpu_skips_cores(machine) ==
    IF str_len(machine.cpu_model) > CpuModelMax
    THEN Some(Err(InvalidField(<<"cpu_model">>, MsgMax200)))
    ELSE None

(***************************************************************************)
(* build(), the CPU checks of one machine.                                 *)
(***************************************************************************)
check_cpu(machine) ==
    IF str_len(machine.cpu_model) > CpuModelMax
    THEN Some(Err(InvalidField(<<"cpu_model">>, MsgMax200)))
    ELSE IF machine.cpu_cores = 0
    THEN Some(Err(InvalidField(<<"cpu_cores">>, MsgPositive)))
    ELSE None

\* check_counts with the cloud_instance_count check left out.
check_counts_skips_cloud(config) ==
    IF config.machine_count = 0
    THEN Some(Err(InvalidField(<<"machine_count">>, MsgPositive)))
    ELSE None

(***************************************************************************)
(* build(), the two counts of one configuration element.                   *)
(***************************************************************************)
check_counts(config) ==
    IF config.machine_count = 0
    THEN Some(Err(InvalidField(<<"machine_count">>, MsgPositive)))
    ELSE IF config.cloud_instance_count = 0
    THEN Some(Err(InvalidField(<<"cloud_instance_count">>, MsgPositive)))
    ELSE None

(***************************************************************************)
(* build(), the body of `for config in &configuration` for one element:    *)
(* counts, CPU, GPU, memory, optional fields, in that order.               *)
(***************************************************************************)
check_config(config) ==
    LET machine == config.machine
        r1 == check_counts(config)
        r2 == check_cpu(machine)
        r3 == check_gpu(machine)
        r4 == check_memory(machine)
    IN  IF IsSome(r1) THEN r1
        ELSE IF IsSome(r2) THEN r2
        ELSE IF IsSome(r3) THEN r3
        ELSE IF IsSome(r4) THEN r4
        ELSE check_optional(machine)

\* config_loop with the counts of every remaining element checked before
\* anything else of any element.
RECURSIVE config_loop_counts_first(_, _)
config_loop_counts_first(configuration, k) ==
    LET zero == {h \in k..Len(configuration) : IsSome(check_counts(configuration[h]))} IN
    IF k > Len(configuration) THEN None
    ELSE IF zero # {}
    THEN check_counts(configuration[CHOOSE h \in zero : \A g \in zero : h <= g])
    ELSE LET r == check_config(configuration[k]) IN
         IF IsSome(r) THEN r ELSE config_loop_counts_first(configuration, k + 1)

(***************************************************************************)
(* build(), `for config in &configuration`.                                *)
(***************************************************************************)
RECURSIVE config_loop(_, _)
config_loop(configuration, k) ==
    IF k > Len(configuration) THEN None
    ELSE LET r == check_config(configuration[k]) IN
         IF IsSome(r) THEN r ELSE config_loop(configuration, k + 1)

\* check_top with the three presence checks first (the order of the rule
\* list rather than of the code).
check_top_required_first(b) ==
    IF IsNone(b.nickname) THEN Some(Err(MissingField("nickname")))
    ELSE IF IsNone(b.zkvm_version_id) THEN Some(Err(MissingField("zkvm_version_id")))
    ELSE IF IsNone(b.configuration) THEN Some(Err(MissingField("configuration")))
    ELSE IF str_len(Unwrap(b.nickname)) > NicknameMax
    THEN Some(Err(InvalidField(<<"nickname">>, MsgMax50)))
    ELSE IF is_some_and(b.description, LAMBDA d : str_len(d) > DescriptionMax)
    THEN Some(Err(InvalidField(<<"description">>, MsgMax200)))
    ELSE IF Unwrap(b.zkvm_version_id) = 0
    THEN Some(Err(InvalidField(<<"zkvm_version_id">>, MsgPositive)))
    ELSE IF is_some_and(b.hardware, LAMBDA h : str_len(h) > HardwareMax)
    THEN Some(Err(InvalidField(<<"hardware">>, "must be between 1 and 200 characters")))
    ELSE IF is_some_and(b.cycle_type, LAMBDA c : str_is_empty(c))
    THEN Some(Err(InvalidField(<<"cycle_type">>, "cycle_type is required")))
    ELSE IF is_some_and(b.proof_type, LAMBDA p : str_is_empty(p))
    THEN Some(Err(InvalidField(<<"proof_type">>, "proof_type is required")))
    ELSE IF Len(Unwrap(b.configuration)) = 0
    THEN Some(Err(InvalidField(<<"configuration">>, "configuration must not be empty")))
    ELSE None

\* check_top naming the wrong field when zkvm_version_id is missing.
check_top_wrong_name(b) ==
    IF IsNone(b.nickname) THEN Some(Err(MissingField("nickname")))
    ELSE IF str_len(Unwrap(b.nickname)) > NicknameMax
    THEN Some(Err(InvalidField(<<"nickname">>, MsgMax50)))
    ELSE IF is_some_and(b.description, LAMBDA d : str_len(d) > DescriptionMax)
    THEN Some(Err(InvalidField(<<"description">>, MsgMax200)))
    ELSE IF IsNone(b.zkvm_version_id) THEN Some(Err(MissingField("nickname")))
    ELSE IF Unwrap(b.zkvm_version_id) = 0
    THEN Some(Err(InvalidField(<<"zkvm_version_id">>, MsgPositive)))
    ELSE IF is_some_and(b.hardware, LAMBDA h : str_len(h) > HardwareMax)
    THEN Some(Err(InvalidField(<<"hardware">>, "must be between 1 and 200 characters")))
    ELSE IF is_some_and(b.cycle_type, LAMBDA c : str_is_empty(c))
    THEN Some(Err(InvalidField(<<"cycle_type">>, "cycle_type is required")))
    ELSE IF is_some_and(b.proof_type, LAMBDA p : str_is_empty(p))
    THEN Some(Err(InvalidField(<<"proof_type">>, "proof_type is required")))
    ELSE IF IsNone(b.configuration) THEN Some(Err(MissingField("configuration")))
    ELSE IF Len(Unwrap(b.configuration)) = 0
    THEN Some(Err(InvalidField(<<"configuration">>, "configuration must not be empty")))
    ELSE None

(***************************************************************************)
(* build(), the checks on the top-level fields up to and including the     *)
(* presence of configuration, in the order of the code.                    *)
(***************************************************************************)
check_top(b) ==
    IF IsNone(b.nickname) THEN Some(Err(MissingField("nickname")))
    ELSE IF str_len(Unwrap(b.nickname)) > NicknameMax
    THEN Some(Err(InvalidField(<<"nickname">>, MsgMax50)))
    ELSE IF is_some_and(b.description, LAMBDA d : str_len(d) > DescriptionMax)
    THEN Some(Err(InvalidField(<<"description">>, MsgMax200)))
    ELSE IF IsNone(b.zkvm_version_id) THEN Some(Err(MissingField("zkvm_version_id")))
    ELSE IF Unwrap(b.zkvm_version_id) = 0
    THEN Some(Err(InvalidField(<<"zkvm_version_id">>, MsgPositive)))
    ELSE IF is_some_and(b.hardware, LAMBDA h : str_len(h) > HardwareMax)
    THEN Some(Err(InvalidField(<<"hardware">>, "must be between 1 and 200 characters")))
    ELSE IF is_some_and(b.cycle_type, LAMBDA c : str_is_empty(c))
    THEN Some(Err(InvalidField(<<"cycle_type">>, "cycle_type is required")))
    ELSE IF is_some_and(b.proof_type, LAMBDA p : str_is_empty(p))
    THEN Some(Err(InvalidField(<<"proof_type">>, "proof_type is required")))
    ELSE IF IsNone(b.configuration) THEN Some(Err(MissingField("configuration")))
    ELSE IF Len(Unwrap(b.configuration)) = 0
    THEN Some(Err(InvalidField(<<"configuration">>, "configuration must not be empty")))
    ELSE None

(***************************************************************************)
(* CreateClusterRequestBuilder::build(): the first failing check returns   *)
(* its error; otherwise the fields are moved into the request unchanged.   *)
(***************************************************************************)
build(b) ==
    LET top == check_top(b) IN
    IF IsSome(top) THEN Unwrap(top)
    ELSE LET elems == config_loop(Unwrap(b.configuration), 1) IN
         IF IsSome(elems) THEN Unwrap(elems)
         ELSE Ok([nickname |-> Unwrap(b.nickname),
                  description |-> b.description,
                  zkvm_version_id |-> Unwrap(b.zkvm_version_id),
                  hardware |-> b.hardware,
                  cycle_type |-> b.cycle_type,
                  proof_type |-> b.proof_type,
                  configuration |-> Unwrap(b.configuration)])

\* set_description that keeps a description it already holds.
set_description_keeps_first(b, v) ==
    IF IsSome(b.description) THEN b ELSE [b EXCEPT !.description = Some(v)]

(***************************************************************************)
(* The builder's setters: each stores Some(value) in its own field.        *)
(***************************************************************************)
set_nickname(b, v) == [b EXCEPT !.nickname = Some(v)]
set_description(b, v) == [b EXCEPT !.description = Some(v)]
set_zkvm_version_id(b, id) == [b EXCEPT !.zkvm_version_id = Some(id)]
set_hardware(b, v) == [b EXCEPT !.hardware = Some(v)]
set_cycle_type(b, v) == [b EXCEPT !.cycle_type = Some(v)]
set_proof_type(b, v) == [b EXCEPT !.proof_type = Some(v)]
set_configuration(b, config) == [b EXCEPT !.configuration = Some(config)]

(***************************************************************************)
(* Bounds of the model and the inputs the caller draws from.               *)
(***************************************************************************)
MaxArr == 2         \* longest GPU / memory array
MaxConfigs == 2     \* longest configuration list built from ListElems

SeqsUpTo(S, n) == UNION {[1..k -> S] : k \in 0..n}
OptSeqs(S, n) == {None} \cup {Some(s) : s \in SeqsUpTo(S, n)}
Opt(S) == {None} \cup {Some(x) : x \in S}

U64Inputs == {0, 1}
NicknameInputs ==
    {Str(1), Str(NicknameMax), Str(NicknameMax + 1)}
DescriptionInputs == {Str(DescriptionMax), Str(DescriptionMax + 1)}
HardwareInputs == {Str(HardwareMax), Str(HardwareMax + 1)}
TypeInputs == {Str(0), Str(NicknameMax), Str(NicknameMax + 1)}
CpuModelInputs == {Str(CpuModelMax), Str(CpuModelMax + 1), Wide(CpuModelMax \div 2 + 1)}
GpuModelInputs == {Str(GpuModelMax), Str(GpuModelMax + 1), Wide(GpuModelMax \div 2 + 1)}
MemoryTypeInputs ==
    {Str(MemoryTypeMax), Str(MemoryTypeMax + 1), Wide(MemoryTypeMax \div 2 + 1)}
NetworkInputs == {Str(NetworkMax), Str(NetworkMax + 1), Wide(NetworkMax \div 2 + 1)}

\* The machine of the builder's documentation example (clusters.rs:93-105).
GoodMachine ==
    [cpu_model |-> Str(10), cpu_cores |-> 1,
     gpu_models |-> Some(<<Str(8)>>), gpu_count |-> Some(<<1>>),
     gpu_memory_gb |-> Some(<<1>>),
     memory_size_gb |-> <<1>>, memory_count |-> <<1>>, memory_type |-> <<Str(4)>>,
     storage_size_gb |-> Some(1), total_tera_flops |-> Some(1),
     network_between_machines |-> Some(Str(6))]
GoodConfig ==
    [machine |-> GoodMachine, machine_count |-> 1,
     cloud_instance_name |-> Str(9), cloud_instance_count |-> 1]
WithMachine(m) == [GoodConfig EXCEPT !.machine = m]

\* Every presence / length / element combination of the three GPU arrays.
GpuSlice ==
    {WithMachine([GoodMachine EXCEPT !.gpu_models = gm, !.gpu_count = gc,
                                     !.gpu_memory_gb = gg]) :
        gm \in OptSeqs(GpuModelInputs, MaxArr),
        gc \in OptSeqs(U64Inputs, MaxArr),
        gg \in OptSeqs(U64Inputs, MaxArr)}
\* Every length / element combination of the three memory arrays.
MemSlice ==
    {WithMachine([GoodMachine EXCEPT !.memory_size_gb = ms, !.memory_count = mc,
                                     !.memory_type = mt]) :
        ms \in SeqsUpTo(U64Inputs, MaxArr),
        mc \in SeqsUpTo(U64Inputs, MaxArr),
        mt \in SeqsUpTo(MemoryTypeInputs, MaxArr)}
\* Every combination of the scalar fields and the two counts.
ScalarSlice ==
    {[machine |-> [GoodMachine EXCEPT !.cpu_model = cm, !.cpu_cores = cc,
                                      !.storage_size_gb = st, !.total_tera_flops = tf,
                                      !.network_between_machines = nw],
      machine_count |-> mc, cloud_instance_name |-> Str(9),
      cloud_instance_count |-> ic] :
        cm \in CpuModelInputs, cc \in U64Inputs, st \in Opt(U64Inputs),
        tf \in Opt(U64Inputs), nw \in Opt(NetworkInputs),
        mc \in U64Inputs, ic \in U64Inputs}

\* One element per check stage of build(), for the longer lists.
BadCounts == [GoodConfig EXCEPT !.machine_count = 0]
BadCloudCount == [GoodConfig EXCEPT !.cloud_instance_count = 0]
BadCpu == WithMachine([GoodMachine EXCEPT !.cpu_cores = 0])
GpuMismatch == WithMachine([GoodMachine EXCEPT !.gpu_count = None])
BadGpuElem == WithMachine([GoodMachine EXCEPT !.gpu_memory_gb = Some(<<0>>)])
MemMismatch == WithMachine([GoodMachine EXCEPT !.memory_type = << >>])
MemEmpty ==
    WithMachine([GoodMachine EXCEPT !.memory_size_gb = << >>, !.memory_count = << >>,
                                    !.memory_type = << >>])
BadMemElem == WithMachine([GoodMachine EXCEPT !.memory_count = <<0>>])
BadOptional == WithMachine([GoodMachine EXCEPT !.storage_size_gb = Some(0)])
NoGpu ==
    WithMachine([GoodMachine EXCEPT !.gpu_models = None, !.gpu_count = None,
                                    !.gpu_memory_gb = None])
ListElems ==
    {GoodConfig, NoGpu, BadCounts, BadCloudCount, BadCpu, GpuMismatch, BadGpuElem, MemMismatch,
     MemEmpty, BadMemElem, BadOptional}

\* The configuration lists of the machine-level specification.
ConfigRich ==
    {<<c>> : c \in GpuSlice \cup MemSlice \cup ScalarSlice}
    \cup UNION {[1..k -> ListElems] : k \in 2..MaxConfigs}
\* The configuration lists of the builder-level specification.
ConfigSmall ==
    {<< >>, <<GoodConfig>>, <<NoGpu, GoodConfig>>, <<BadCounts>>, <<BadCloudCount>>,
     <<BadCpu>>, <<GpuMismatch>>, <<BadGpuElem>>, <<MemEmpty>>, <<BadMemElem>>,
     <<BadOptional>>, <<GoodConfig, BadCpu>>, <<BadCpu, BadCounts>>}

\* Top-level settings of the machine-level specification: the required
\* fields alone, every optional field set, and one violation per check.
TopMinimal == set_zkvm_version_id(set_nickname(Builder_new, Str(NicknameMax)), 1)
TopFull ==
    set_proof_type(set_cycle_type(set_hardware(set_description(TopMinimal,
        Str(DescriptionMax)), Str(HardwareMax)), Str(3)), Str(7))
TopProfiles ==
    {TopMinimal, TopFull,
     set_nickname(TopFull, Str(NicknameMax + 1)),
     set_nickname(TopFull, Wide(NicknameMax \div 2 + 1)),
     set_description(TopFull, Str(DescriptionMax + 1)),
     set_zkvm_version_id(TopFull, 0),
     set_hardware(TopFull, Str(HardwareMax + 1)),
     set_cycle_type(TopFull, Str(0)),
     set_proof_type(TopFull, Str(0))}

(***************************************************************************)
(* Actions on the builder.  A setter or build() needs a builder that has   *)
(* not been consumed; build(self) consumes it and leaves its outcome.      *)
(* given records what the caller passed: None for a setter not called on   *)
(* this builder, else the argument of its latest call.                     *)
(***************************************************************************)
BuilderFields ==
    {"nickname", "description", "zkvm_version_id", "hardware", "cycle_type", "proof_type",
     "configuration"}
NothingGiven == [f \in BuilderFields |-> None]

New ==
    /\ builder' = Builder_new
    /\ given' = NothingGiven
    /\ built' = None
    /\ UNCHANGED <<cvars, rvars>>

Builder_nickname ==
    /\ IsNone(built)
    /\ \E v \in NicknameInputs :
          /\ builder' = set_nickname(builder, v)
          /\ given' = [given EXCEPT !.nickname = Some(v)]
    /\ UNCHANGED <<built, cvars, rvars>>

Builder_description ==
    /\ IsNone(built)
    /\ \E v \in DescriptionInputs :
          /\ builder' = set_description(builder, v)
          /\ given' = [given EXCEPT !.description = Some(v)]
    /\ UNCHANGED <<built, cvars, rvars>>

Builder_zkvm_version_id ==
    /\ IsNone(built)
    /\ \E id \in U64Inputs :
          /\ builder' = set_zkvm_version_id(builder, id)
          /\ given' = [given EXCEPT !.zkvm_version_id = Some(id)]
    /\ UNCHANGED <<built, cvars, rvars>>

Builder_hardware ==
    /\ IsNone(built)
    /\ \E v \in HardwareInputs :
          /\ builder' = set_hardware(builder, v)
          /\ given' = [given EXCEPT !.hardware = Some(v)]
    /\ UNCHANGED <<built, cvars, rvars>>

Builder_cycle_type ==
    /\ IsNone(built)
    /\ \E v \in TypeInputs :
          /\ builder' = set_cycle_type(builder, v)
          /\ given' = [given EXCEPT !.cycle_type = Some(v)]
    /\ UNCHANGED <<built, cvars, rvars>>

Builder_proof_type ==
    /\ IsNone(built)
    /\ \E v \in TypeInputs :
          /\ builder' = set_proof_type(builder, v)
          /\ given' = [given EXCEPT !.proof_type = Some(v)]
    /\ UNCHANGED <<built, cvars, rvars>>

Builder_configuration ==
    /\ IsNone(built)
    /\ \E c \in ConfigSmall :
          /\ builder' = set_configuration(builder, c)
          /\ given' = [given EXCEPT !.configuration = Some(c)]
    /\ UNCHANGED <<built, cvars, rvars>>

\* CreateClusterRequestBuilder::new()...configuration(c) as one chained call
\* on a fresh builder: the profile top holds the last argument of each setter
\* of the chain.
Builder_chain ==
    /\ builder = Builder_new
    /\ IsNone(built)
    /\ \E top \in TopProfiles, c \in ConfigRich :
          /\ builder' = set_configuration(top, c)
          /\ given' = [top EXCEPT !.configuration = Some(c)]
    /\ UNCHANGED <<built, cvars, rvars>>

Builder_build ==
    /\ IsNone(built)
    /\ built' = Some(build(builder))
    /\ UNCHANGED <<builder, given, cvars, rvars>>


(***************************************************************************)
(* Vocabulary of the properties: the documented field constraints, stated  *)
(* declaratively with a length measure L (characters or String::len()).    *)
(***************************************************************************)
OptLen(o) == IF IsSome(o) THEN Len(o[1]) ELSE 0
Required == {"nickname", "zkvm_version_id", "configuration"}
Unset(b) == {f \in Required : IsNone(b[f])}
Result == Unwrap(built)

GpuLengthsEqual(m) ==
    /\ OptLen(m.gpu_count) = OptLen(m.gpu_models)
    /\ OptLen(m.gpu_memory_gb) = OptLen(m.gpu_models)
GpuElementsOk(m, L(_)) ==
    /\ \A i \in 1..OptLen(m.gpu_models) : L(m.gpu_models[1][i]) <= 200
    /\ \A i \in 1..OptLen(m.gpu_count) : m.gpu_count[1][i] > 0
    /\ \A i \in 1..OptLen(m.gpu_memory_gb) : m.gpu_memory_gb[1][i] > 0
MemoryLengthsOk(m) ==
    /\ Len(m.memory_size_gb) > 0
    /\ Len(m.memory_count) = Len(m.memory_size_gb)
    /\ Len(m.memory_type) = Len(m.memory_size_gb)
MemoryElementsOk(m, L(_)) ==
    /\ \A i \in 1..Len(m.memory_size_gb) : m.memory_size_gb[i] > 0
    /\ \A i \in 1..Len(m.memory_count) : m.memory_count[i] > 0
    /\ \A i \in 1..Len(m.memory_type) : L(m.memory_type[i]) <= 200
ScalarsOk(c, L(_)) ==
    /\ c.machine_count > 0
    /\ c.cloud_instance_count > 0
    /\ L(c.machine.cpu_model) <= 200
    /\ c.machine.cpu_cores > 0
    /\ IsSome(c.machine.storage_size_gb) => c.machine.storage_size_gb[1] > 0
    /\ IsSome(c.machine.total_tera_flops) => c.machine.total_tera_flops[1] > 0
    /\ IsSome(c.machine.network_between_machines) =>
          L(c.machine.network_between_machines[1]) <= 500
ConfigOk(c, L(_)) ==
    /\ ScalarsOk(c, L)
    /\ GpuLengthsEqual(c.machine) /\ GpuElementsOk(c.machine, L)
    /\ MemoryLengthsOk(c.machine) /\ MemoryElementsOk(c.machine, L)
\* The constraints on the top-level fields that are set (o is an Option).
TopSetOk(b, L(_)) ==
    /\ IsSome(b.nickname) => L(b.nickname[1]) <= 50
    /\ IsSome(b.description) => L(b.description[1]) <= 200
    /\ IsSome(b.hardware) => L(b.hardware[1]) <= 200
    /\ IsSome(b.cycle_type) => L(b.cycle_type[1]) > 0
    /\ IsSome(b.proof_type) => L(b.proof_type[1]) > 0
    /\ IsSome(b.zkvm_version_id) => b.zkvm_version_id[1] > 0
SetFieldsOk(b, L(_)) ==
    /\ TopSetOk(b, L)
    /\ IsSome(b.configuration) =>
          /\ Len(b.configuration[1]) > 0
          /\ \A k \in 1..Len(b.configuration[1]) : ConfigOk(b.configuration[1][k], L)
\* The same constraints on a built CreateClusterRequest.
RequestOk(q, L(_)) ==
    /\ L(q.nickname) <= 50
    /\ IsSome(q.description) => L(q.description[1]) <= 200
    /\ IsSome(q.hardware) => L(q.hardware[1]) <= 200
    /\ IsSome(q.cycle_type) => L(q.cycle_type[1]) > 0
    /\ IsSome(q.proof_type) => L(q.proof_type[1]) > 0
    /\ q.zkvm_version_id > 0
    /\ Len(q.configuration) > 0
    /\ \A k \in 1..Len(q.configuration) : ConfigOk(q.configuration[k], L)

(***************************************************************************)
(* C1: every request build() returns as Ok satisfies rules 2-8 at once     *)
(* (lengths in characters), and build() never returns Ok for a builder     *)
(* one of whose set fields violates a rule.                                *)
(***************************************************************************)
C1_BuiltRequestIsValid ==
    (IsSome(built) /\ IsOk(Result)) =>
        /\ RequestOk(Result.value, char_count)
        /\ SetFieldsOk(builder, char_count)

C1_Witness ==
    /\ IsSome(built) /\ IsOk(Result)
    /\ Len(Result.value.configuration) = 2
    /\ IsSome(Result.value.description)
    /\ \E k \in 1..2 : IsNone(Result.value.configuration[k].machine.gpu_models)
    /\ \E k \in 1..2 : OptLen(Result.value.configuration[k].machine.gpu_models) = 1

(***************************************************************************)
(* The checks of build() as one flat list in the order of the code, each   *)
(* with the condition under which it fails, the error it reports and the   *)
(* number of the rule (1-8) it belongs to.                                 *)
(***************************************************************************)
Check(fails, rule, err) == [fails |-> fails, rule |-> rule, err |-> err]

RECURSIVE Flatten(_)
Flatten(ss) == IF ss = << >> THEN << >> ELSE Head(ss) \o Flatten(Tail(ss))

TopChecks(b) ==
    << Check(IsNone(b.nickname), 1, MissingField("nickname")),
       Check(IsSome(b.nickname) /\ str_len(b.nickname[1]) > 50, 2,
             InvalidField(<<"nickname">>, MsgMax50)),
       Check(IsSome(b.description) /\ str_len(b.description[1]) > 200, 2,
             InvalidField(<<"description">>, MsgMax200)),
       Check(IsNone(b.zkvm_version_id), 1, MissingField("zkvm_version_id")),
       Check(IsSome(b.zkvm_version_id) /\ b.zkvm_version_id[1] = 0, 3,
             InvalidField(<<"zkvm_version_id">>, MsgPositive)),
       Check(IsSome(b.hardware) /\ str_len(b.hardware[1]) > 200, 2,
             InvalidField(<<"hardware">>, "must be between 1 and 200 characters")),
       Check(IsSome(b.cycle_type) /\ str_len(b.cycle_type[1]) = 0, 2,
             InvalidField(<<"cycle_type">>, "cycle_type is required")),
       Check(IsSome(b.proof_type) /\ str_len(b.proof_type[1]) = 0, 2,
             InvalidField(<<"proof_type">>, "proof_type is required")),
       Check(IsNone(b.configuration), 1, MissingField("configuration")),
       Check(IsSome(b.configuration) /\ OptLen(b.configuration) = 0, 4,
             InvalidField(<<"configuration">>, "configuration must not be empty")) >>

GpuElementChecks(m) ==
    Flatten([i \in 1..OptLen(m.gpu_models) |->
        << Check(str_len(m.gpu_models[1][i]) > 200, 6,
                 InvalidField(<<"gpu_models", i - 1>>, MsgMax200)),
           Check(i <= OptLen(m.gpu_count) /\ m.gpu_count[1][i] = 0, 6,
                 InvalidField(<<"gpu_count", i - 1>>, MsgPositive)),
           Check(i <= OptLen(m.gpu_memory_gb) /\ m.gpu_memory_gb[1][i] = 0, 6,
                 InvalidField(<<"gpu_memory_gb", i - 1>>, MsgPositive)) >>])

MemoryElementChecks(m) ==
    Flatten([i \in 1..Len(m.memory_size_gb) |->
        << Check(m.memory_size_gb[i] = 0, 7,
                 InvalidField(<<"memory_size_gb", i - 1>>, MsgPositive)),
           Check(i <= Len(m.memory_count) /\ m.memory_count[i] = 0, 7,
                 InvalidField(<<"memory_count", i - 1>>, MsgPositive)),
           Check(i <= Len(m.memory_type) /\ str_len(m.memory_type[i]) > 200, 7,
                 InvalidField(<<"memory_type", i - 1>>, MsgMax200)) >>])

ElementChecks(c) ==
    LET m == c.machine IN
    << Check(c.machine_count = 0, 4, InvalidField(<<"machine_count">>, MsgPositive)),
       Check(c.cloud_instance_count = 0, 4,
             InvalidField(<<"cloud_instance_count">>, MsgPositive)),
       Check(str_len(m.cpu_model) > 200, 5, InvalidField(<<"cpu_model">>, MsgMax200)),
       Check(m.cpu_cores = 0, 5, InvalidField(<<"cpu_cores">>, MsgPositive)),
       Check(~GpuLengthsEqual(m), 6, MalformedRequest(MsgGpuLen)) >>
    \o GpuElementChecks(m)
    \o << Check(\/ Len(m.memory_count) # Len(m.memory_size_gb)
                \/ Len(m.memory_type) # Len(m.memory_size_gb), 7,
                MalformedRequest(MsgMemLen)),
          Check(Len(m.memory_size_gb) = 0, 7, MalformedRequest(MsgMemEmpty)) >>
    \o MemoryElementChecks(m)
    \o << Check(IsSome(m.storage_size_gb) /\ m.storage_size_gb[1] = 0, 8,
                InvalidField(<<"storage_size_gb">>, MsgPositive)),
          Check(IsSome(m.total_tera_flops) /\ m.total_tera_flops[1] = 0, 8,
                InvalidField(<<"total_tera_flops">>, MsgPositive)),
          Check(IsSome(m.network_between_machines)
                    /\ str_len(m.network_between_machines[1]) > 500, 8,
                InvalidField(<<"network_between_machines">>, MsgMax500)) >>

AllChecks(b) ==
    TopChecks(b)
    \o Flatten([k \in 1..OptLen(b.configuration) |-> ElementChecks(b.configuration[1][k])])

Failing(cs) == {j \in 1..Len(cs) : cs[j].fails}
FirstFailing(cs) == CHOOSE j \in Failing(cs) : \A h \in Failing(cs) : j <= h
LowestRule(cs) ==
    CHOOSE n \in 1..8 :
        /\ \E j \in Failing(cs) : cs[j].rule = n
        /\ \A j \in Failing(cs) : cs[j].rule >= n
\* The rule an error belongs to.
RuleOf(cs, e) == cs[CHOOSE j \in 1..Len(cs) : cs[j].err = e].rule

(***************************************************************************)
(* C3 as stated: build() reports the error of the lowest-numbered failing  *)
(* rule (1 required fields, 2 top-level lengths, 3 zkvm_version_id,        *)
(* 4 configuration and counts, 5 CPU, 6 GPU, 7 memory, 8 optional).        *)
(* The code does not: it checks nickname's length before the presence of   *)
(* zkvm_version_id, and one element fully before the next.                 *)
(***************************************************************************)
C3_LowestRuleFirst ==
    (IsSome(built) /\ IsErr(Result)) =>
        LET cs == AllChecks(builder) IN
        RuleOf(cs, Result.err) = LowestRule(cs)

(***************************************************************************)
(* C3 amended: build() reports exactly one error, that of the first        *)
(* failing check in the order of the code (AllChecks), and Ok exactly when *)
(* no check fails.                                                         *)
(***************************************************************************)
C3_FirstFailingCheck ==
    IsSome(built) =>
        LET cs == AllChecks(builder) IN
        IF Failing(cs) = {} THEN IsOk(Result)
        ELSE Result = Err(cs[FirstFailing(cs)].err)

\* Several rules fail at once, and the error is not that of the lowest one.
C3_Witness ==
    /\ IsSome(built) /\ IsErr(Result)
    /\ Cardinality({AllChecks(builder)[j].rule : j \in Failing(AllChecks(builder))}) >= 3
    /\ RuleOf(AllChecks(builder), Result.err) # LowestRule(AllChecks(builder))

GpuOtherwiseValid(b) ==
    /\ Unset(b) = {}
    /\ TopSetOk(b, str_len)
    /\ \A k \in 1..OptLen(b.configuration) :
          LET c == b.configuration[1][k] IN
          /\ ScalarsOk(c, str_len)
          /\ MemoryLengthsOk(c.machine) /\ MemoryElementsOk(c.machine, str_len)
          /\ GpuLengthsEqual(c.machine) => GpuElementsOk(c.machine, str_len)

MemoryOtherwiseValid(b) ==
    /\ Unset(b) = {}
    /\ TopSetOk(b, str_len)
    /\ \A k \in 1..OptLen(b.configuration) :
          LET c == b.configuration[1][k] IN
          /\ ScalarsOk(c, str_len)
          /\ GpuLengthsEqual(c.machine) /\ GpuElementsOk(c.machine, str_len)
          /\ MemoryLengthsOk(c.machine) => MemoryElementsOk(c.machine, str_len)

JNull == [t |-> "null"]
JNum(class) == [t |-> "num", class |-> class]   \* "u32", "u64" (too big for u32), "neg"
JStr == [t |-> "str"]
JElem(ok) == [t |-> "elem", ok |-> ok]
JArr(items) == [t |-> "arr", items |-> items]
JObj(fields) == [t |-> "obj", fields |-> fields]
Absent == [t |-> "none"]                        \* Option::None in a decoded value

(***************************************************************************)
(* EthProofsError.                                                         *)
(***************************************************************************)
RequestError(cause) == [kind |-> "RequestError", cause |-> cause]
ApiError(status, message) == [kind |-> "ApiError", status |-> status, message |-> message]
ParseError == [kind |-> "ParseError"]
InvalidURL == [kind |-> "InvalidURL"]

(***************************************************************************)
(* The response types the caller can ask call() to decode into: the fields *)
(* of each in declaration order, with the serde attributes that matter.    *)
(***************************************************************************)
Field(name, ty, default) == [name |-> name, ty |-> ty, default |-> default]
Struct(fields) == [transparent |-> FALSE, fields |-> fields]
Transparent(name, ty) == [transparent |-> TRUE, fields |-> <<Field(name, ty, FALSE)>>]

ResponseTypes ==
    {"GetBlockDetailsResponse", "CreateClusterResponse", "ListClustersResponse",
     "ListActiveClustersForATeamResponse", "CreateSingleMachineResponse",
     "DownloadProofResponse", "DownloadProofsResponse", "ListProofsResponse",
     "QueuedProofResponse", "ProvingProofResponse", "ProvedProofResponse",
     "ListCloudInstancesResponse"}

ResponseSchema(R) ==
    CASE R = "GetBlockDetailsResponse" ->
            Struct(<<Field("block_number", "u64", FALSE), Field("timestamp", "String", FALSE),
                     Field("gas_used", "u64", FALSE),
                     Field("transaction_count", "u32", FALSE),
                     Field("hash", "String", FALSE), Field("created_at", "String", FALSE),
                     Field("updated_at", "OptString", TRUE)>>)
      [] R = "CreateClusterResponse" -> Struct(<<Field("id", "u64", FALSE)>>)
      [] R = "ListClustersResponse" -> Struct(<<Field("clusters", "Vec", FALSE)>>)
      [] R = "ListActiveClustersForATeamResponse" -> Transparent("clusters", "Vec")
      [] R = "CreateSingleMachineResponse" -> Transparent("machine_id", "u64")
      [] R = "DownloadProofResponse" -> Struct(<<Field("proof_binary_file", "String", FALSE)>>)
      [] R = "DownloadProofsResponse" -> Struct(<<Field("proofs_zip_file", "String", FALSE)>>)
      [] R = "ListProofsResponse" ->
            Struct(<<Field("proofs", "Vec", FALSE), Field("total_count", "u64", FALSE),
                     Field("limit", "u64", FALSE), Field("offset", "u64", FALSE)>>)
      [] R = "QueuedProofResponse" -> Struct(<<Field("proof_id", "u64", FALSE)>>)
      [] R = "ProvingProofResponse" -> Struct(<<Field("proof_id", "u64", FALSE)>>)
      [] R = "ProvedProofResponse" -> Struct(<<Field("proof_id", "u64", FALSE)>>)
      [] R = "ListCloudInstancesResponse" -> Transparent("instances", "Vec")

(***************************************************************************)
(* Deserialize for one field type: does the JSON value decode as it.       *)
(***************************************************************************)
de_accepts(ty, j) ==
    CASE ty = "u64" -> j.t = "num" /\ j.class \in {"u32", "u64"}
      [] ty = "u32" -> j.t = "num" /\ j.class = "u32"
      [] ty = "String" -> j.t = "str"
      [] ty = "OptString" -> j.t \in {"null", "str"}
      [] ty = "Vec" ->
            j.t = "arr" /\ \A i \in 1..Len(j.items) : j.items[i].t = "elem" /\ j.items[i].ok
\* The decoded value of a field: None for an Option given null, else the value.
de_value(ty, j) == IF ty = "OptString" /\ j.t = "null" THEN Absent ELSE j

\* A decoder that fills every absent field with its default.
visit_map_defaulting(fields, obj) ==
    LET idx == 1..Len(fields)
        present(i) == fields[i].name \in DOMAIN obj
    IN  IF \E i \in idx : present(i) /\ ~de_accepts(fields[i].ty, obj[fields[i].name])
        THEN Err(ParseError)
        ELSE Ok([n \in {fields[i].name : i \in idx} |->
                    LET i == CHOOSE k \in idx : fields[k].name = n IN
                    IF present(i) THEN de_value(fields[i].ty, obj[n]) ELSE Absent])

(***************************************************************************)
(* The derived Deserialize of a struct, from a JSON object: a key that is  *)
(* present must decode; an absent key is an error unless the field has     *)
(* #[serde(default)] or is an Option; unknown keys are ignored.            *)
(***************************************************************************)
visit_map(fields, obj) ==
    LET idx == 1..Len(fields)
        present(i) == fields[i].name \in DOMAIN obj
        optional(i) == fields[i].default \/ fields[i].ty = "OptString"
        bad(i) == IF present(i) THEN ~de_accepts(fields[i].ty, obj[fields[i].name])
                  ELSE ~optional(i)
    IN  IF \E i \in idx : bad(i) THEN Err(ParseError)
        ELSE Ok([n \in {fields[i].name : i \in idx} |->
                    LET i == CHOOSE k \in idx : fields[k].name = n IN
                    IF present(i) THEN de_value(fields[i].ty, obj[n]) ELSE Absent])

(***************************************************************************)
(* The derived Deserialize of a struct, from a JSON array: the fields by   *)
(* position; a missing element is an error unless the field has            *)
(* #[serde(default)]; elements left over are an error.                     *)
(***************************************************************************)
visit_seq(fields, items) ==
    LET idx == 1..Len(fields)
        present(i) == i <= Len(items)
        bad(i) == IF present(i) THEN ~de_accepts(fields[i].ty, items[i])
                  ELSE ~fields[i].default
    IN  IF Len(items) > Len(fields) \/ \E i \in idx : bad(i) THEN Err(ParseError)
        ELSE Ok([n \in {fields[i].name : i \in idx} |->
                    LET i == CHOOSE k \in idx : fields[k].name = n IN
                    IF present(i) THEN de_value(fields[i].ty, items[i]) ELSE Absent])

(***************************************************************************)
(* serde_json::from_value::<R>(value), turned into the client's error by   *)
(* the `?` of call().                                                      *)
(***************************************************************************)
from_value(R, j) ==
    LET schema == ResponseSchema(R) IN
    IF schema.transparent
    THEN IF de_accepts(schema.fields[1].ty, j)
         THEN Ok([n \in {schema.fields[1].name} |-> de_value(schema.fields[1].ty, j)])
         ELSE Err(ParseError)
    ELSE IF j.t = "obj" THEN visit_map(schema.fields, j.fields)
    ELSE IF j.t = "arr" THEN visit_seq(schema.fields, j.items)
    ELSE Err(ParseError)

(***************************************************************************)
(* A response body as the transport delivers it: unreadable, or a text     *)
(* that is either JSON (known by the value it parses to) or not.           *)
(***************************************************************************)
Unreadable == [kind |-> "unreadable"]
Text(raw) == [kind |-> "text", raw |-> raw]
JsonText(j) == [kind |-> "json", json |-> j]
\* Response::text()
response_text(body) == IF body.kind = "unreadable" THEN Err("body") ELSE Ok(body)
\* Response::json::<serde_json::Value>()
response_json(body) == IF body.kind = "json" THEN Ok(body.json) ELSE Err("decode")
\* A status test that takes every status from 200 up to 399 as success.
is_success_below_400(status) == 200 <= status /\ status < 400
\* StatusCode::is_success()
is_success(status) == 200 <= status /\ status < 300

(***************************************************************************)
(* Text that is formatted, not measured: a sequence of tokens, with the    *)
(* characters '/', '?', '&', '=' and ',' always tokens of their own, so    *)
(* that format! and push_str are concatenation, contains() is a search and *)
(* two texts are equal exactly when their strings are.                     *)
(***************************************************************************)
contains(text, ch) == \E i \in 1..Len(text) : text[i] = ch
\* Display of a u64.
u64_to_text(n) == <<ToString(n)>>

\* BlockNumber and its Display: both variants print their content as it is.
BlockNumber_Int(n) == [variant |-> "Int", int |-> n]
BlockNumber_String(text) == [variant |-> "String", text |-> text]
BlockNumber_fmt(bn) == IF bn.variant = "Int" THEN u64_to_text(bn.int) ELSE bn.text

(***************************************************************************)
(* EthProofsRequest: the variant and the request struct it wraps.          *)
(***************************************************************************)
Request(variant, payload) == [variant |-> variant, payload |-> payload]
MutatingVariants ==
    {"CreateCluster", "CreateSingleMachine", "QueuedProof", "ProvingProof", "ProvedProof"}

\* A method chosen by the resource: only the two create requests are POST.
method_post_for_create_only(req) ==
    IF req.variant \in {"CreateCluster", "CreateSingleMachine"} THEN "POST" ELSE "GET"
method(req) ==
    CASE req.variant = "GetBlockDetails" -> "GET"
      [] req.variant = "CreateCluster" -> "POST"
      [] req.variant = "ListClusters" -> "GET"
      [] req.variant = "ListActiveClustersForATeam" -> "GET"
      [] req.variant = "CreateSingleMachine" -> "POST"
      [] req.variant = "DownloadProof" -> "GET"
      [] req.variant = "DownloadProofs" -> "GET"
      [] req.variant = "ListProofs" -> "GET"
      [] req.variant = "QueuedProof" -> "POST"
      [] req.variant = "ProvingProof" -> "POST"
      [] req.variant = "ProvedProof" -> "POST"
      [] req.variant = "ListCloudInstances" -> "GET"

\* A ListProofs endpoint that joins every parameter after the first present
\* one with '?'.
list_proofs_endpoint_question_marks(q) ==
    <<"/", "proofs">>
    \o (IF IsSome(q.block) THEN <<"?", "block", "=">> \o BlockNumber_fmt(Unwrap(q.block))
        ELSE << >>)
    \o (IF IsSome(q.clusters) THEN <<"?", "clusters", "=">> \o Unwrap(q.clusters) ELSE << >>)
    \o <<"?", "limit", "=">> \o u64_to_text(q.limit)
    \o <<"&", "offset", "=">> \o u64_to_text(q.offset)
\* The ListProofs arm of endpoint(): the separator is chosen by searching
\* what has been written so far for a '?'.
list_proofs_endpoint(q) ==
    LET e0 == <<"/", "proofs">>
        e1 == IF IsSome(q.block)
              THEN e0 \o <<"?", "block", "=">> \o BlockNumber_fmt(Unwrap(q.block)) ELSE e0
        e2 == IF IsSome(q.clusters)
              THEN e1 \o <<IF contains(e1, "?") THEN "&" ELSE "?", "clusters", "=">>
                      \o Unwrap(q.clusters)
              ELSE e1
    IN  e2 \o <<IF contains(e2, "?") THEN "&" ELSE "?", "limit", "=">> \o u64_to_text(q.limit)
           \o <<"&", "offset", "=">> \o u64_to_text(q.offset)

endpoint(req) ==
    LET q == req.payload IN
    CASE req.variant = "GetBlockDetails" -> <<"/", "blocks", "/">> \o BlockNumber_fmt(q.block_number)
      [] req.variant \in {"CreateCluster", "ListClusters"} -> <<"/", "clusters">>
      [] req.variant = "ListActiveClustersForATeam" ->
            <<"/", "clusters", "/", "active", "?", "team_id", "=">> \o q.team_id
      [] req.variant = "CreateSingleMachine" -> <<"/", "single-machine">>
      [] req.variant = "DownloadProof" -> <<"/", "proofs", "/", "download", "/">> \o q.proof_id
      [] req.variant = "DownloadProofs" ->
            <<"/", "proofs", "/", "download", "/", "block", "/">> \o q.block_hash
      [] req.variant = "ListProofs" -> list_proofs_endpoint(q)
      [] req.variant = "QueuedProof" -> <<"/", "proofs", "/", "queue">>
      [] req.variant = "ProvingProof" -> <<"/", "proofs", "/", "proving">>
      [] req.variant = "ProvedProof" -> <<"/", "proofs", "/", "proved">>
      [] req.variant = "ListCloudInstances" ->
            IF IsSome(q.provider)
            THEN <<"/", "cloud-instances", "?", "provider", "=">> \o Unwrap(q.provider)
            ELSE <<"/", "cloud-instances">>

(***************************************************************************)
(* Serialize: a struct becomes the JSON object of its fields; a field with *)
(* skip_serializing_if = "Option::is_none" is left out when it is None,    *)
(* any other Option that is None is written as null.                       *)
(***************************************************************************)
ser_option(o) == IF IsSome(o) THEN Unwrap(o) ELSE JNull
ser_struct_writes_null(value, skippable) ==
    [k \in DOMAIN value |-> IF k \in skippable THEN ser_option(value[k]) ELSE value[k]]
ser_struct(value, skippable) ==
    LET keep == {k \in DOMAIN value : ~(k \in skippable /\ value[k] = None)} IN
    [k \in keep |-> IF k \in skippable THEN Unwrap(value[k]) ELSE value[k]]

MachineSkippable ==
    {"gpu_models", "gpu_count", "gpu_memory_gb", "storage_size_gb", "total_tera_flops",
     "network_between_machines"}
RequestSkippable == {"description", "hardware", "cycle_type", "proof_type"}

ser_machine(m) == ser_struct(m, MachineSkippable)
ser_configuration(c) == [c EXCEPT !.machine = ser_machine(c.machine)]

\* The derived Serialize of each payload that has a body.
serialize(req) ==
    LET q == req.payload IN
    CASE req.variant = "CreateCluster" ->
            ser_struct([q EXCEPT !.configuration =
                            [i \in 1..Len(q.configuration) |->
                                ser_configuration(q.configuration[i])]],
                       RequestSkippable)
      [] req.variant = "CreateSingleMachine" ->
            ser_struct([q EXCEPT !.machine = ser_machine(q.machine)], RequestSkippable)
      [] req.variant \in {"QueuedProof", "ProvingProof"} -> q
      [] req.variant = "ProvedProof" ->
            [q EXCEPT !.proving_cycles = ser_option(q.proving_cycles),
                      !.verifier_id = ser_option(q.verifier_id)]

\* serde_json::to_value returns a Result.  The serializer is a collaborator:
\* a request on which it fails is marked, the mark standing for the
\* serializer's outcome and not for a field of the payload.
SerializeError == "serialization failed"
serialize_fails(req) == "serialize_fails" \in DOMAIN req
Unserializable(req) ==
    [variant |-> req.variant, payload |-> req.payload, serialize_fails |-> TRUE]
to_value(req) == IF serialize_fails(req) THEN Err(SerializeError) ELSE Ok(serialize(req))

\* Result::ok drops the error.
ok(r) == IF IsOk(r) THEN Some(r.value) ELSE None

body_only_for_clusters(req) ==
    IF req.variant = "CreateCluster" THEN ok(to_value(req)) ELSE None
body_null_on_failure(req) ==
    IF req.variant \in MutatingVariants
    THEN (IF IsOk(to_value(req)) THEN Some(to_value(req).value) ELSE Some(JNull))
    ELSE None
body(req) == IF req.variant \in MutatingVariants THEN ok(to_value(req)) ELSE None

(***************************************************************************)
(* EthProofsClient: the base URL and the credential.  The transport handle *)
(* is the collaborator that the exchanges below are handed to.             *)
(***************************************************************************)
PRODUCTION_URL == <<"production endpoint">>
STAGING_URL == <<"staging endpoint">>
with_base_url(base_url, api_key) == [base_url |-> base_url, api_key |-> api_key]
EthProofsClient_new(api_key) == with_base_url(PRODUCTION_URL, api_key)
staging(api_key) == with_base_url(STAGING_URL, api_key)
\* A header that carries the credential without the Bearer scheme.
auth_header_bare(cl) == <<cl.api_key>>
auth_header(cl) == <<"Bearer ", cl.api_key>>

\* How a client was constructed, and the client that construction gives.
Constructions ==
    {[fn |-> "new", base_url |-> None, api_key |-> "key-A"],
     [fn |-> "staging", base_url |-> None, api_key |-> "key-B"],
     [fn |-> "with_base_url", base_url |-> Some(<<"https:", "/", "/", "mock", "/">>), api_key |-> "key-A"]}
construct(how) ==
    CASE how.fn = "new" -> EthProofsClient_new(how.api_key)
      [] how.fn = "staging" -> staging(how.api_key)
      [] how.fn = "with_base_url" -> with_base_url(Unwrap(how.base_url), how.api_key)

(***************************************************************************)
(* call(): the request handed to the transport, then the classification of *)
(* what the transport gives back.                                          *)
(***************************************************************************)
\* An exchange that sends every proof transition to the queue endpoint.
exchange_always_queues(cl, req) ==
    [method |-> method(req),
     url |-> cl.base_url \o (IF req.variant \in {"ProvingProof", "ProvedProof"}
                             THEN <<"/", "proofs", "/", "queue">> ELSE endpoint(req)),
     authorization |-> auth_header(cl),
     body |-> body(req)]
exchange(cl, req) ==
    [method |-> method(req),
     url |-> cl.base_url \o endpoint(req),
     authorization |-> auth_header(cl),
     body |-> body(req)]

UnknownError == Text("Unknown error")
\* classify with a 2xx body that is not JSON reported as ParseError.
classify_undecodable_is_parse(status, resp_body, R) ==
    IF ~is_success(status)
    THEN LET text == response_text(resp_body) IN
         Err(ApiError(status, IF IsOk(text) THEN text.value ELSE UnknownError))
    ELSE LET res == response_json(resp_body) IN
         IF IsErr(res) THEN Err(ParseError)
         ELSE from_value(R, res.value)
classify(status, resp_body, R) ==
    IF ~is_success(status)
    THEN LET text == response_text(resp_body) IN
         Err(ApiError(status, IF IsOk(text) THEN text.value ELSE UnknownError))
    ELSE LET res == response_json(resp_body) IN
         IF IsErr(res) THEN Err(RequestError(res.err))
         ELSE from_value(R, res.value)

\* One invocation of call(): where it is suspended and what it holds.
Idle ==
    [pc |-> "idle", request |-> None, rtype |-> None, sent |-> << >>,
     status |-> None, body |-> None, result |-> None]
\* Lines 48-61 up to the await of send().
call_send(cl, req, R) ==
    [Idle EXCEPT !.pc = "send", !.request = Some(req), !.rtype = Some(R),
                 !.sent = <<exchange(cl, req)>>]
\* A send() failure that is answered by sending the request once more.
call_send_error_retries(cs) ==
    IF Len(cs.sent) < 2 THEN [cs EXCEPT !.sent = Append(@, @[1])]
    ELSE [cs EXCEPT !.pc = "done", !.result = Some(Err(RequestError("send")))]
\* send() fails: the `?` of line 61 returns the transport's error.
call_send_error(cs) ==
    [cs EXCEPT !.pc = "done", !.result = Some(Err(RequestError("send")))]
\* send() returns a response: its status is read, the body is awaited.
call_status(cs, status) == [cs EXCEPT !.pc = "body", !.status = Some(status)]
\* A body read through one buffer shared by the calls in flight: a call
\* classifies the body another call has read, when there is one.
call_finish_shared(all, c, resp_body) ==
    LET others == {d \in DOMAIN all : d # c /\ IsSome(all[d].body)}
        seen == IF others = {} THEN resp_body ELSE Unwrap(all[CHOOSE d \in others : TRUE].body)
    IN  [all[c] EXCEPT !.pc = "done", !.body = Some(resp_body),
                       !.result = Some(classify(Unwrap(all[c].status), seen,
                                                Unwrap(all[c].rtype)))]
\* The body read ends (text() or json()): the call returns.
call_finish(all, c, resp_body) ==
    [all[c] EXCEPT !.pc = "done", !.body = Some(resp_body),
                   !.result = Some(classify(Unwrap(all[c].status), resp_body,
                                            Unwrap(all[c].rtype)))]

(***************************************************************************)
(* Inputs of call(): requests of every variant.  A CreateClusterRequest is *)
(* either what build() returned or a struct literal (its fields are pub);  *)
(* the other request types have no builder and are always struct literals. *)
(***************************************************************************)
BuiltCluster == build(set_configuration(TopFull, <<GoodConfig>>)).value
GoodSingleMachine ==
    [nickname |-> Str(NicknameMax), description |-> Some(Str(3)), zkvm_version_id |-> 1,
     hardware |-> None, cycle_type |-> Some(Str(3)), proof_type |-> None,
     machine |-> GoodMachine, cloud_instance_name |-> Str(9)]
ProofTransition == [block_number |-> 1, cluster_id |-> 1]
GoodProved ==
    [block_number |-> 1, cluster_id |-> 1, proving_time |-> 1, proving_cycles |-> None,
     proof |-> Str(4), verifier_id |-> Some(Str(5))]
default_limit == 100
default_offset == 0

ClusterRequests ==
    {Request("CreateCluster", q) :
        q \in {BuiltCluster,
               [BuiltCluster EXCEPT !.description = None, !.hardware = None],
               [BuiltCluster EXCEPT !.nickname = Str(NicknameMax + 1)],
               [BuiltCluster EXCEPT !.configuration = << >>]}}
SingleMachineRequests ==
    {Request("CreateSingleMachine", q) :
        q \in {GoodSingleMachine,
               [GoodSingleMachine EXCEPT !.nickname = Str(NicknameMax + 1),
                                         !.zkvm_version_id = 0],
               [GoodSingleMachine EXCEPT !.machine.gpu_count = Some(<<1, 1>>)]}}
ProofRequests ==
    {Request("QueuedProof", ProofTransition), Request("ProvingProof", ProofTransition),
     Request("ProvedProof", GoodProved),
     Request("ProvedProof", [GoodProved EXCEPT !.proving_cycles = Some(1),
                                               !.verifier_id = None])}
ReadRequests ==
    {Request("GetBlockDetails", [block_number |-> bn]) :
        bn \in {BlockNumber_Int(1), BlockNumber_String(<<"1">>),
                BlockNumber_String(<<"latest">>)}}
    \cup {Request("ListClusters", << >>)}
    \cup {Request("ListActiveClustersForATeam", [team_id |-> <<"team-uuid">>])}
    \cup {Request("DownloadProof", [proof_id |-> id]) :
            id \in {<<"uuid-1">>, <<"block", "/", "0xabc">>}}
    \cup {Request("DownloadProofs", [block_hash |-> <<"0xabc">>])}
    \cup {Request("ListProofs", [block |-> b, clusters |-> cl, limit |-> l,
                                 offset |-> default_offset]) :
            b \in Opt({BlockNumber_Int(1)}),
            cl \in Opt({<<"uuid-1", ",", "uuid-2">>, <<"a", "?", "b">>}),
            l \in {default_limit, 1}}
    \cup {Request("ListCloudInstances", [provider |-> pr]) : pr \in Opt({<<"aws">>})}
RequestInputs == ClusterRequests \cup SingleMachineRequests \cup ProofRequests \cup ReadRequests


(***************************************************************************)
(* Inputs of the transport: statuses around the 2xx boundary, and bodies.  *)
(* For each response type: the object and the array that decode, and each  *)
(* of them with one field taken away, replaced, or one entry added.        *)
(***************************************************************************)
StatusInputs == {199, 200, 299, 300, 404}

ValuesOf(ty) ==
    CASE ty = "u64" -> {JNum("u32"), JNum("u64"), JNum("neg"), JStr}
      [] ty = "u32" -> {JNum("u32"), JNum("u64"), JStr}
      [] ty = "String" -> {JStr, JNum("u32"), JNull}
      [] ty = "OptString" -> {JStr, JNull, JNum("u32")}
      [] ty = "Vec" -> {JArr(<< >>), JArr(<<JElem(TRUE)>>), JArr(<<JElem(TRUE), JElem(FALSE)>>),
                        JStr}
GoodValue(ty) ==
    CASE ty = "u64" -> JNum("u64")
      [] ty = "u32" -> JNum("u32")
      [] ty \in {"String", "OptString"} -> JStr
      [] ty = "Vec" -> JArr(<<JElem(TRUE)>>)

FieldNames(fields) == {fields[i].name : i \in 1..Len(fields)}
TypeOf(fields, n) == fields[CHOOSE i \in 1..Len(fields) : fields[i].name = n].ty
GoodObject(fields) == [n \in FieldNames(fields) |-> GoodValue(TypeOf(fields, n))]
GoodArray(fields) == [i \in 1..Len(fields) |-> GoodValue(fields[i].ty)]
ObjectsFor(fields) ==
    LET good == GoodObject(fields) IN
    {good, [n \in FieldNames(fields) \cup {"extra"} |->
                IF n = "extra" THEN JStr ELSE good[n]]}
    \cup {[n \in FieldNames(fields) \ {gone} |-> good[n]] : gone \in FieldNames(fields)}
    \cup UNION {{[good EXCEPT ![n] = v] : v \in ValuesOf(TypeOf(fields, n))} :
                    n \in FieldNames(fields)}
ArraysFor(fields) ==
    LET good == GoodArray(fields) IN
    {good, Append(good, JStr), SubSeq(good, 1, Len(fields) - 1)}
    \cup UNION {{[good EXCEPT ![i] = v] : v \in ValuesOf(fields[i].ty)} :
                    i \in 1..Len(fields)}
JsonFor(R) ==
    LET fields == ResponseSchema(R).fields IN
    {JObj(o) : o \in ObjectsFor(fields)} \cup {JArr(a) : a \in ArraysFor(fields)}
    \cup ValuesOf(fields[1].ty) \cup {JNull}
JsonInputs == UNION {JsonFor(R) : R \in ResponseTypes}
BodyInputs ==
    {JsonText(j) : j \in JsonInputs} \cup {Text("not found"), Text(""), Unreadable}

(***************************************************************************)
(* Calls in flight on the one client.  `calls` holds each invocation,      *)
(* `log` the order in which invocations started and returned.              *)
(***************************************************************************)
MaxCalls == 2
CallIds == 1..MaxCalls

\* The caller invokes call::<R>(request).
Call(c, requests, types) ==
    /\ calls[c].pc = "idle"
    /\ \E req \in requests, R \in types :
          calls' = [calls EXCEPT ![c] = call_send(client, req, R)]
    /\ log' = Append(log, <<"start", c>>)
    /\ UNCHANGED <<bvars, rvars, client, ctor, service>>

\* The transport fails the exchange of call c.
Transport_error(c) ==
    /\ calls[c].pc = "send"
    /\ calls' = [calls EXCEPT ![c] = call_send_error(calls[c])]
    /\ log' = Append(log, <<"done", c>>)
    /\ UNCHANGED <<bvars, rvars, client, ctor, service>>

\* The transport returns the response head of call c.
Transport_response(c, statuses) ==
    /\ calls[c].pc = "send"
    /\ \E status \in statuses : calls' = [calls EXCEPT ![c] = call_status(calls[c], status)]
    /\ UNCHANGED <<bvars, rvars, client, ctor, log, service>>

\* The body read of call c ends.
Transport_body(c, bodies) ==
    /\ calls[c].pc = "body"
    /\ \E resp_body \in bodies : calls' = [calls EXCEPT ![c] = call_finish(calls, c, resp_body)]
    /\ log' = Append(log, <<"done", c>>)
    /\ UNCHANGED <<bvars, rvars, client, ctor, service>>

(***************************************************************************)
(* The remote service, seen from the client: the requests it has processed *)
(* in order, and the calls in flight whose request it has processed.       *)
(***************************************************************************)
MaxProcessed == 2
NoService == [processed |-> << >>, delivered |-> {}]
processed_by_service(svc, c, ex) ==
    [processed |-> Append(svc.processed, ex), delivered |-> svc.delivered \cup {c}]
\* A call that returns gives up its connection; the service keeps what it did.
released(svc, c) == [svc EXCEPT !.delivered = @ \ {c}]
\* Dropping the future withdraws the request as well, as if it had never
\* been processed.
call_dropped_recalls(svc, c) ==
    IF c \in svc.delivered
    THEN [processed |-> SubSeq(svc.processed, 1, Len(svc.processed) - 1),
          delivered |-> svc.delivered \ {c}]
    ELSE svc
\* Dropping the future releases the local resources of the call only.
call_dropped(svc, c) == released(svc, c)

\* The caller has taken the result of call c.
RECURSIVE Without(_, _)
Without(events, c) ==
    IF events = << >> THEN << >>
    ELSE IF Head(events)[2] = c THEN Without(Tail(events), c)
    ELSE <<Head(events)>> \o Without(Tail(events), c)
Call_return(c) ==
    /\ calls[c].pc = "done"
    /\ calls' = [calls EXCEPT ![c] = Idle]
    /\ log' = Without(log, c)
    /\ service' = released(service, c)
    /\ UNCHANGED <<bvars, rvars, client, ctor>>

\* The service processes the request of call c, which is on the wire since
\* send() and stays there until the call returns or is abandoned.
Service_process(c) ==
    /\ calls[c].pc = "send"
    /\ c \notin service.delivered
    /\ Len(service.processed) < MaxProcessed
    /\ service' = processed_by_service(service, c, calls[c].sent[1])
    /\ UNCHANGED <<bvars, rvars, client, ctor, calls, log>>

\* The caller drops the future of call c while it is suspended at send()
\* or at the body read.
Call_cancel(c) ==
    /\ calls[c].pc \in {"send", "body"}
    /\ calls' = [calls EXCEPT ![c] = Idle]
    /\ log' = Append(Without(log, c), <<"cancel", c>>)
    /\ service' = call_dropped(service, c)
    /\ UNCHANGED <<bvars, rvars, client, ctor>>

(***************************************************************************)
(* Specifications.  SpecBuilder drives the builder setter by setter;       *)
(* SpecMachine drives it with whole chains over rich configurations;       *)
(* SpecCall is one call at a time over every request, response type and    *)
(* transport outcome; SpecConc is several calls in flight at once.         *)
(***************************************************************************)
(***************************************************************************)
(* EthProofsResponse: one variant per response type.  TryFrom is written   *)
(* once per response type: it matches one variant and, failing that,       *)
(* returns ParseError with a type name.  (errors.rs declares ParseError    *)
(* over serde_json::Error while these impls build it from a String; what   *)
(* is modelled is what the impls write.)                                   *)
(***************************************************************************)
ResponseVariants ==
    [GetBlockDetails |-> "GetBlockDetailsResponse",
     CreateCluster |-> "CreateClusterResponse",
     ListClusters |-> "ListClustersResponse",
     ListActiveClustersForATeam |-> "ListActiveClustersForATeamResponse",
     CreateSingleMachine |-> "CreateSingleMachineResponse",
     DownloadProof |-> "DownloadProofResponse",
     DownloadProofs |-> "DownloadProofsResponse",
     ListProofs |-> "ListProofsResponse",
     QueuedProof |-> "QueuedProofResponse",
     ProvingProof |-> "ProvingProofResponse",
     ProvedProof |-> "ProvedProofResponse",
     ListCloudInstances |-> "ListCloudInstancesResponse"]
EthProofsResponse(variant, payload) == [variant |-> variant, payload |-> payload]
\* For each response type: the variant its impl matches and the name its
\* error carries.
TryFromImpls ==
    [GetBlockDetailsResponse |->
        [pattern |-> "GetBlockDetails", names |-> "GetBlockDetailsResponse"],
     CreateClusterResponse |->
        [pattern |-> "CreateCluster", names |-> "CreateClusterResponse"],
     ListClustersResponse |->
        [pattern |-> "ListClusters", names |-> "ListClustersResponse"],
     ListActiveClustersForATeamResponse |->
        [pattern |-> "ListActiveClustersForATeam",
         names |-> "ListActiveClustersForATeamResponse"],
     CreateSingleMachineResponse |->
        [pattern |-> "CreateSingleMachine", names |-> "CreateSingleMachineResponse"],
     DownloadProofResponse |->
        [pattern |-> "DownloadProof", names |-> "DownloadProofResponse"],
     DownloadProofsResponse |->
        [pattern |-> "DownloadProofs", names |-> "DownloadProofsResponse"],
     ListProofsResponse |->
        [pattern |-> "ListProofs", names |-> "ListProofsResponse"],
     QueuedProofResponse |->
        [pattern |-> "QueuedProof", names |-> "QueuedProofResponse"],
     ProvingProofResponse |->
        [pattern |-> "ProvingProof", names |-> "ProvingProofResponse"],
     ProvedProofResponse |->
        [pattern |-> "ProvedProof", names |-> "ProvedProofResponse"],
     ListCloudInstancesResponse |->
        [pattern |-> "ListCloudInstances", names |-> "ListCloudInstancesResponse"]]
ParseErrorNaming(name) == [kind |-> "ParseError", message |-> name]
\* A narrowing whose error names the type the value holds.
try_from_names_held(T, value) ==
    IF value.variant = TryFromImpls[T].pattern THEN Ok(value.payload)
    ELSE Err(ParseErrorNaming(ResponseVariants[value.variant]))
try_from(T, value) ==
    IF value.variant = TryFromImpls[T].pattern THEN Ok(value.payload)
    ELSE Err(ParseErrorNaming(TryFromImpls[T].names))
into_inner(value, T) == try_from(T, value)

\* Response values: each variant around the payloads its type decodes to.
Decoded(R) ==
    {from_value(R, j).value : j \in {x \in JsonFor(R) : IsOk(from_value(R, x))}}
ResponseValues ==
    UNION {{EthProofsResponse(v, payload) : payload \in Decoded(ResponseVariants[v])} :
              v \in DOMAIN ResponseVariants}

\* No response at hand; a response at hand; a response consumed by
\* into_inner::<T>() with its outcome.
NotNarrowed == [value |-> None, target |-> None, outcome |-> None]
Response_received ==
    /\ IsNone(narrowing.value)
    /\ \E value \in ResponseValues : narrowing' = [NotNarrowed EXCEPT !.value = Some(value)]
    /\ UNCHANGED <<bvars, cvars, decoded>>
Response_into_inner ==
    /\ IsSome(narrowing.value) /\ IsNone(narrowing.outcome)
    /\ \E T \in ResponseTypes :
          narrowing' = [narrowing EXCEPT !.target = Some(T),
                                         !.outcome = Some(into_inner(Unwrap(narrowing.value), T))]
    /\ UNCHANGED <<bvars, cvars, decoded>>
Response_dropped ==
    /\ IsSome(narrowing.outcome)
    /\ narrowing' = NotNarrowed
    /\ UNCHANGED <<bvars, cvars, decoded>>

(***************************************************************************)
(* ListProofsRequest read from JSON (it derives Deserialize): a JSON       *)
(* object is a function from its keys to numbers and strings.  block and   *)
(* clusters are Options with #[serde(default)]; limit and offset take      *)
(* default_limit() and default_offset() when their key is absent.  A       *)
(* struct literal must name all four fields, so this is the one way a      *)
(* request is made without giving them.                                    *)
(***************************************************************************)
Num(n) == [t |-> "num", n |-> n]
Txt(s) == [t |-> "str", s |-> s]
\* NumberOrString is untagged: a number is Int, a string is String.
BlockNumber_from(j) == IF j.t = "num" THEN BlockNumber_Int(j.n) ELSE BlockNumber_String(j.s)
\* A reader with plain #[serde(default)] on the pagination fields.
ListProofsRequest_from_zeroes(obj) ==
    [block |-> IF "block" \in DOMAIN obj THEN Some(BlockNumber_from(obj.block)) ELSE None,
     clusters |-> IF "clusters" \in DOMAIN obj THEN Some(obj.clusters.s) ELSE None,
     limit |-> IF "limit" \in DOMAIN obj THEN obj.limit.n ELSE 0,
     offset |-> IF "offset" \in DOMAIN obj THEN obj.offset.n ELSE 0]
ListProofsRequest_from(obj) ==
    [block |-> IF "block" \in DOMAIN obj THEN Some(BlockNumber_from(obj.block)) ELSE None,
     clusters |-> IF "clusters" \in DOMAIN obj THEN Some(obj.clusters.s) ELSE None,
     limit |-> IF "limit" \in DOMAIN obj THEN obj.limit.n ELSE default_limit,
     offset |-> IF "offset" \in DOMAIN obj THEN obj.offset.n ELSE default_offset]

ListProofsKeys == {"block", "clusters", "limit", "offset"}
ListProofsValues ==
    [block |-> {Num(1), Txt(<<"latest">>)},
     clusters |-> {Txt(<<"uuid-1">>), Txt(<<"uuid-1", ",", "uuid-2">>)},
     limit |-> {Num(1), Num(100), Num(1000)},
     offset |-> {Num(0), Num(5)}]
ListProofsJson ==
    UNION {{obj \in [keys -> UNION {ListProofsValues[k] : k \in keys}] :
               \A k \in keys : obj[k] \in ListProofsValues[k]} : keys \in SUBSET ListProofsKeys}

NotDecoded == [json |-> None, request |-> None, path |-> None]
Request_deserialized ==
    /\ IsNone(decoded.json)
    /\ \E obj \in ListProofsJson :
          decoded' = [NotDecoded EXCEPT !.json = Some(obj),
                                        !.request = Some(ListProofsRequest_from(obj))]
    /\ UNCHANGED <<bvars, cvars, narrowing>>
Request_endpoint ==
    /\ IsSome(decoded.request) /\ IsNone(decoded.path)
    /\ decoded' = [decoded EXCEPT
                      !.path = Some(endpoint(Request("ListProofs", Unwrap(decoded.request))))]
    /\ UNCHANGED <<bvars, cvars, narrowing>>
Request_dropped ==
    /\ IsSome(decoded.path)
    /\ decoded' = NotDecoded
    /\ UNCHANGED <<bvars, cvars, narrowing>>

DecodeInit == decoded = NotDecoded
ResponseInit == narrowing = NotNarrowed
BuilderInit ==
    /\ builder = Builder_new
    /\ built = None
    /\ given = NothingGiven
ClientInit(hows) ==
    /\ ctor \in hows
    /\ client = construct(ctor)
    /\ calls = [c \in CallIds |-> Idle]
    /\ log = << >>
    /\ service = NoService

Init ==
    /\ BuilderInit
    /\ ClientInit({[fn |-> "new", base_url |-> None, api_key |-> "key-A"]})
    /\ ResponseInit
    /\ DecodeInit
InitCall == BuilderInit /\ ClientInit(Constructions) /\ ResponseInit /\ DecodeInit

NextBuilder ==
    \/ New
    \/ Builder_nickname
    \/ Builder_description
    \/ Builder_zkvm_version_id
    \/ Builder_hardware
    \/ Builder_cycle_type
    \/ Builder_proof_type
    \/ Builder_configuration
    \/ Builder_build

NextMachine ==
    \/ New
    \/ Builder_chain
    \/ Builder_build

NextCall ==
    \/ Call(1, RequestInputs, ResponseTypes)
    \/ Transport_error(1)
    \/ Transport_response(1, StatusInputs)
    \/ Transport_body(1, BodyInputs)
    \/ Call_return(1)

\* The convenience methods used concurrently: each fixes the response type.
create_cluster(c) ==
    Call(c, {Request("CreateCluster", BuiltCluster)}, {"CreateClusterResponse"})
get_block_details(c) ==
    Call(c, {Request("GetBlockDetails", [block_number |-> bn]) : bn \in {BlockNumber_Int(1)}},
         {"GetBlockDetailsResponse"})
ConcStatuses == {200, 404}
ConcBodies ==
    {JsonText(JObj(GoodObject(ResponseSchema("CreateClusterResponse").fields))),
     JsonText(JObj(GoodObject(ResponseSchema("GetBlockDetailsResponse").fields))),
     Text("not found")}

NextConc ==
    \E c \in CallIds :
        \/ create_cluster(c)
        \/ get_block_details(c)
        \/ Transport_error(c)
        \/ Transport_response(c, ConcStatuses)
        \/ Transport_body(c, ConcBodies)
        \/ Call_return(c)

\* Mutating calls that may be abandoned and made again.
NextCancel ==
    \/ Call(1, ClusterRequests \cup SingleMachineRequests \cup ProofRequests,
            {"CreateClusterResponse", "QueuedProofResponse"})
    \/ Service_process(1)
    \/ Transport_error(1)
    \/ Transport_response(1, ConcStatuses)
    \/ Transport_body(1, ConcBodies)
    \/ Call_return(1)
    \/ Call_cancel(1)

\* Requests of any two variants side by side, each sent and abandoned.
NextRoute ==
    \E c \in CallIds :
        \/ Call(c, RequestInputs, {"GetBlockDetailsResponse"})
        \/ Call_cancel(c)

\* Calls with a body whose serialization the serializer may fail.
SerFailRequests ==
    LET mutating == ClusterRequests \cup SingleMachineRequests \cup ProofRequests IN
    mutating \cup {Unserializable(req) : req \in mutating}
NextSerFail ==
    \/ Call(1, SerFailRequests, {"CreateClusterResponse", "QueuedProofResponse"})
    \/ Transport_error(1)
    \/ Transport_response(1, StatusInputs)
    \/ Transport_body(1, BodyInputs)
    \/ Call_return(1)

(***************************************************************************)
(* The convenience methods of the client: each builds or takes the request *)
(* of one variant and fixes the response type of call::<R>().  An endpoint *)
(* without a convenience method is reached through call() itself, the      *)
(* caller naming the response type.                                        *)
(***************************************************************************)
ConvenienceMethods ==
    {[name |-> "get_block_details", variant |-> "GetBlockDetails",
      rtype |-> "GetBlockDetailsResponse"],
     [name |-> "create_cluster", variant |-> "CreateCluster",
      rtype |-> "CreateClusterResponse"],
     [name |-> "list_clusters", variant |-> "ListClusters",
      rtype |-> "ListClustersResponse"],
     [name |-> "list_active_clusters_for_team", variant |-> "ListActiveClustersForATeam",
      rtype |-> "ListActiveClustersForATeamResponse"],
     [name |-> "create_single_machine", variant |-> "CreateSingleMachine",
      rtype |-> "CreateSingleMachineResponse"],
     [name |-> "download_proof", variant |-> "DownloadProof",
      rtype |-> "DownloadProofResponse"],
     [name |-> "list_proofs", variant |-> "ListProofs", rtype |-> "ListProofsResponse"],
     [name |-> "queue_proof", variant |-> "QueuedProof", rtype |-> "QueuedProofResponse"],
     [name |-> "list_cloud_instances", variant |-> "ListCloudInstances",
      rtype |-> "ListCloudInstancesResponse"]}
RequestsOf(variant) == {req \in RequestInputs : req.variant = variant}
Convenience(c) ==
    \E m \in ConvenienceMethods : Call(c, RequestsOf(m.variant), {m.rtype})
\* A caller that needs an endpoint without a convenience method.
Generic_call(c) ==
    \E v \in DOMAIN ResponseVariants :
        /\ \A m \in ConvenienceMethods : m.variant # v
        /\ Call(c, RequestsOf(v), {ResponseVariants[v]})
NextConvenience ==
    \/ Convenience(1)
    \/ Generic_call(1)
    \/ Transport_error(1)
    \/ Transport_response(1, ConcStatuses)
    \/ Transport_body(1, ConcBodies)
    \/ Call_return(1)

(***************************************************************************)
(* The proof lifecycle.  ProofStatus has three values; each of the three   *)
(* transition requests asks for one of them for a block and a cluster.     *)
(* The client holds no record of the transitions it has sent; the history  *)
(* is what the service has processed.                                      *)
(***************************************************************************)
ProofStatus == {"queued", "proving", "proved"}
TransitionStatus ==
    [QueuedProof |-> "queued", ProvingProof |-> "proving", ProvedProof |-> "proved"]
LifecycleRequests ==
    UNION {{Request("QueuedProof", [ProofTransition EXCEPT !.block_number = b]),
            Request("ProvingProof", [ProofTransition EXCEPT !.block_number = b]),
            Request("ProvedProof", [GoodProved EXCEPT !.block_number = b])} : b \in {1, 2}}
NextLifecycle ==
    \/ Call(1, LifecycleRequests, {"QueuedProofResponse"})
    \/ Service_process(1)
    \/ Transport_error(1)
    \/ Transport_response(1, ConcStatuses)
    \/ Transport_body(1, ConcBodies)
    \/ Call_return(1)

NextPage ==
    \/ Request_deserialized
    \/ Request_endpoint
    \/ Request_dropped

NextNarrow ==
    \/ Response_received
    \/ Response_into_inner
    \/ Response_dropped

SpecBuilder == Init /\ [][NextBuilder]_vars
SpecMachine == Init /\ [][NextMachine]_vars
SpecCall == InitCall /\ [][NextCall]_vars
SpecConc == InitCall /\ [][NextConc]_vars
SpecCancel == InitCall /\ [][NextCancel]_vars
SpecRoute == InitCall /\ [][NextRoute]_vars
SpecSerFail == InitCall /\ [][NextSerFail]_vars
SpecNarrow == Init /\ [][NextNarrow]_vars
SpecPage == Init /\ [][NextPage]_vars
SpecLifecycle == InitCall /\ [][NextLifecycle]_vars
SpecConvenience == InitCall /\ [][NextConvenience]_vars

(***************************************************************************)
(* Vocabulary of the call properties.                                      *)
(***************************************************************************)
Returned(c) == calls[c].pc = "done"
ResultOf(c) == Unwrap(calls[c].result)
StatusOf(c) == Unwrap(calls[c].status)
BodyOf(c) == Unwrap(calls[c].body)
\* The documented constraints of CreateSingleMachineRequest.
SingleMachineOk(q) ==
    /\ char_count(q.nickname) <= 50
    /\ IsSome(q.description) => char_count(q.description[1]) <= 200
    /\ q.zkvm_version_id > 0
    /\ IsSome(q.hardware) => char_count(q.hardware[1]) <= 200
    /\ IsSome(q.cycle_type) => char_count(q.cycle_type[1]) <= 50
    /\ IsSome(q.proof_type) => char_count(q.proof_type[1]) <= 50
    /\ ConfigOk([machine |-> q.machine, machine_count |-> 1, cloud_instance_count |-> 1],
                char_count)
PayloadOk(req) ==
    CASE req.variant = "CreateCluster" -> RequestOk(req.payload, char_count)
      [] req.variant = "CreateSingleMachine" -> SingleMachineOk(req.payload)
      [] OTHER -> TRUE

(***************************************************************************)
(* C2: every mutating payload that call() hands to the transport satisfies *)
(* the documented field constraints of its endpoint.                       *)
(***************************************************************************)
C2_OnlyValidPayloadsSent ==
    \A c \in CallIds :
        (calls[c].sent # << >> /\ Unwrap(calls[c].request).variant \in MutatingVariants) =>
            PayloadOk(Unwrap(calls[c].request))

(***************************************************************************)
(* C7: a call whose response has a non-2xx status returns ApiError with    *)
(* that status and the body text unchanged, or the fallback text when the  *)
(* body cannot be read; never ParseError, never Ok.                        *)
(***************************************************************************)
C7_NonSuccessIsApiError ==
    \A c \in CallIds :
        (Returned(c) /\ IsSome(calls[c].status) /\ StatusOf(c) \notin 200..299) =>
            ResultOf(c) = Err(ApiError(StatusOf(c),
                                       IF BodyOf(c) = Unreadable THEN Text("Unknown error")
                                       ELSE BodyOf(c)))

C7_Witness ==
    /\ Returned(1) /\ calls[1].status = Some(404) /\ calls[1].body = Some(Text("not found"))
    /\ ResultOf(1) = Err(ApiError(404, Text("not found")))

(***************************************************************************)
(* C8: on a 2xx response with a JSON body, a body that does not supply a   *)
(* required field of the requested type with a value of the field's type   *)
(* gives ParseError, and an Ok value holds, in every required field, the   *)
(* value the body supplied for it.                                         *)
(***************************************************************************)
RequiredFields(R) ==
    LET fields == ResponseSchema(R).fields IN
    {i \in 1..Len(fields) : ~fields[i].default /\ fields[i].ty # "OptString"}
SuppliedBy(R, j, i) ==
    LET schema == ResponseSchema(R) IN
    IF schema.transparent THEN Some(j)
    ELSE IF j.t = "obj"
         THEN IF schema.fields[i].name \in DOMAIN j.fields
              THEN Some(j.fields[schema.fields[i].name]) ELSE None
    ELSE IF j.t = "arr" /\ i <= Len(j.items) THEN Some(j.items[i])
    ELSE None
C8_MismatchIsParseError ==
    \A c \in CallIds :
        (Returned(c) /\ IsSome(calls[c].status) /\ StatusOf(c) \in 200..299
                     /\ BodyOf(c).kind = "json") =>
            LET R == Unwrap(calls[c].rtype)
                j == BodyOf(c).json
                fields == ResponseSchema(R).fields
                supplied(i) == /\ IsSome(SuppliedBy(R, j, i))
                               /\ de_accepts(fields[i].ty, Unwrap(SuppliedBy(R, j, i)))
            IN  /\ (\E i \in RequiredFields(R) : ~supplied(i)) => ResultOf(c) = Err(ParseError)
                /\ IsOk(ResultOf(c)) =>
                      \A i \in RequiredFields(R) :
                          /\ supplied(i)
                          /\ ResultOf(c).value[fields[i].name] = Unwrap(SuppliedBy(R, j, i))

C8_Witness ==
    /\ Returned(1) /\ calls[1].status = Some(200)
    /\ calls[1].rtype = Some("GetBlockDetailsResponse")
    /\ BodyOf(1).kind = "json" /\ BodyOf(1).json.t = "obj"
    /\ DOMAIN BodyOf(1).json.fields =
          FieldNames(ResponseSchema("GetBlockDetailsResponse").fields) \ {"hash"}
    /\ ResultOf(1) = Err(ParseError)

(***************************************************************************)
(* C9: a call that has started has handed exactly one exchange to the      *)
(* transport, a call has a result exactly when it has returned, the result *)
(* is one value or one error, and nothing is sent once there is a result.  *)
(***************************************************************************)
C9_State ==
    \A c \in CallIds :
        /\ Len(calls[c].sent) = IF calls[c].pc = "idle" THEN 0 ELSE 1
        /\ IsSome(calls[c].result) <=> Returned(c)
        /\ Returned(c) => (IsOk(ResultOf(c)) /\ ~IsErr(ResultOf(c)))
                          \/ (IsErr(ResultOf(c)) /\ ~IsOk(ResultOf(c)))
C9_Step ==
    \A c \in CallIds :
        (calls[c].pc # "idle" /\ calls'[c].pc # "idle") =>
            /\ calls'[c].sent = calls[c].sent
            /\ Returned(c) => calls'[c] = calls[c]
C9_ExactlyOneExchange == [](C9_State) /\ [][C9_Step]_vars

C9_Witness ==
    /\ Returned(1) /\ ResultOf(1) = Err(RequestError("send"))
    /\ Len(calls[1].sent) = 1

(***************************************************************************)
(* C10: with several calls in flight, the client is in every state what    *)
(* its construction made it, each call has sent its own request with that  *)
(* base URL and credential, and each result is the classification of the   *)
(* call's own response for the call's own response type.                   *)
(***************************************************************************)
C10_CallsAreIndependent ==
    /\ client = construct(ctor)
    /\ \A c \in CallIds :
          /\ calls[c].pc # "idle" =>
                calls[c].sent = <<exchange(construct(ctor), Unwrap(calls[c].request))>>
          /\ Returned(c) =>
                ResultOf(c) = IF IsNone(calls[c].status) THEN Err(RequestError("send"))
                              ELSE classify(StatusOf(c), BodyOf(c), Unwrap(calls[c].rtype))

C10_Witness ==
    /\ log = <<<<"start", 1>>, <<"start", 2>>, <<"done", 2>>, <<"done", 1>>>>
    /\ \A c \in {1, 2} :
          /\ Unwrap(calls[c].request).variant = "CreateCluster"
          /\ Returned(c) /\ IsOk(ResultOf(c))

(***************************************************************************)
(* C11: abandoning a call takes nothing back from the service, so a        *)
(* mutating request that was sent, abandoned and sent again can have been  *)
(* processed twice; what the service has processed never shrinks.          *)
(***************************************************************************)
C11_CancelDoesNotUndoDelivery ==
    [][/\ Len(service'.processed) >= Len(service.processed)
       /\ SubSeq(service'.processed, 1, Len(service.processed)) = service.processed]_vars

C11_Witness ==
    /\ log = <<<<"cancel", 1>>, <<"start", 1>>>>
    /\ Len(service.processed) = 2
    /\ service.processed[1] = service.processed[2]
    /\ service.processed[1].method = "POST"
    /\ calls[1].sent = <<service.processed[2]>>

(***************************************************************************)
(* Vocabulary of the request properties.                                   *)
(***************************************************************************)
Started(c) == calls[c].pc # "idle"
RequestOf(c) == Unwrap(calls[c].request)
SentBy(c) == calls[c].sent[1]
GetVariants ==
    {"GetBlockDetails", "ListClusters", "ListActiveClustersForATeam", "DownloadProof",
     "DownloadProofs", "ListProofs", "ListCloudInstances"}
PostVariants ==
    {"CreateCluster", "CreateSingleMachine", "QueuedProof", "ProvingProof", "ProvedProof"}

(***************************************************************************)
(* C12: the method of a request is GET for the seven read variants and     *)
(* POST for the five mutating ones, whatever the fields hold.              *)
(***************************************************************************)
C12_MethodFixedByVariant ==
    \A c \in CallIds :
        Started(c) =>
            /\ RequestOf(c).variant \in GetVariants => method(RequestOf(c)) = "GET"
            /\ RequestOf(c).variant \in PostVariants => method(RequestOf(c)) = "POST"
            /\ RequestOf(c).variant \in GetVariants \cup PostVariants
            /\ SentBy(c).method = method(RequestOf(c))

C12_Witness ==
    /\ Started(1) /\ RequestOf(1).variant = "ProvedProof"
    /\ IsSome(RequestOf(1).payload.proving_cycles)
    /\ SentBy(1).method = "POST"

(***************************************************************************)
(* C13: a list endpoint is its path followed by the parameters that are    *)
(* present, the first joined with '?' and the others with '&'; ListProofs  *)
(* always ends with limit and offset in that order.                        *)
(***************************************************************************)
Param(key, value) == [key |-> key, value |-> value]
QueryText(params) ==
    LET RECURSIVE upto(_)
        upto(n) == IF n = 0 THEN << >>
                   ELSE upto(n - 1) \o <<IF n = 1 THEN "?" ELSE "&", params[n].key, "=">>
                                   \o params[n].value
    IN  upto(Len(params))
ListProofsParams(q) ==
    (IF IsSome(q.block) THEN <<Param("block", BlockNumber_fmt(q.block[1]))>> ELSE << >>)
    \o (IF IsSome(q.clusters) THEN <<Param("clusters", q.clusters[1])>> ELSE << >>)
    \o <<Param("limit", <<ToString(q.limit)>>), Param("offset", <<ToString(q.offset)>>)>>
C13_ListEndpointQuery ==
    \A c \in CallIds :
        Started(c) =>
            LET q == RequestOf(c).payload IN
            /\ RequestOf(c).variant = "ListProofs" =>
                  endpoint(RequestOf(c)) = <<"/", "proofs">> \o QueryText(ListProofsParams(q))
            /\ RequestOf(c).variant = "ListCloudInstances" =>
                  endpoint(RequestOf(c)) =
                      <<"/", "cloud-instances">>
                      \o QueryText(IF IsSome(q.provider)
                                   THEN <<Param("provider", q.provider[1])>> ELSE << >>)
            /\ SentBy(c).url = client.base_url \o endpoint(RequestOf(c))

C13_Witness ==
    /\ Started(1) /\ RequestOf(1).variant = "ListProofs"
    /\ IsNone(RequestOf(1).payload.block) /\ IsSome(RequestOf(1).payload.clusters)
    /\ endpoint(RequestOf(1)) =
          <<"/", "proofs", "?", "clusters", "=", "uuid-1", ",", "uuid-2",
            "&", "limit", "=", "100", "&", "offset", "=", "0">>

(***************************************************************************)
(* C14: every other variant has the path of the interface table, with a    *)
(* BlockNumber printed as its digits or as its string; and two requests of *)
(* different variants never have both the same method and the same path.   *)
(***************************************************************************)
TablePath(req) ==
    LET q == req.payload IN
    CASE req.variant = "GetBlockDetails" ->
            <<"/", "blocks", "/">>
            \o (IF q.block_number.variant = "Int" THEN <<ToString(q.block_number.int)>>
                ELSE q.block_number.text)
      [] req.variant = "CreateCluster" -> <<"/", "clusters">>
      [] req.variant = "ListClusters" -> <<"/", "clusters">>
      [] req.variant = "ListActiveClustersForATeam" ->
            <<"/", "clusters", "/", "active", "?", "team_id", "=">> \o q.team_id
      [] req.variant = "CreateSingleMachine" -> <<"/", "single-machine">>
      [] req.variant = "DownloadProof" -> <<"/", "proofs", "/", "download", "/">> \o q.proof_id
      [] req.variant = "DownloadProofs" ->
            <<"/", "proofs", "/", "download", "/", "block", "/">> \o q.block_hash
      [] req.variant = "QueuedProof" -> <<"/", "proofs", "/", "queue">>
      [] req.variant = "ProvingProof" -> <<"/", "proofs", "/", "proving">>
      [] req.variant = "ProvedProof" -> <<"/", "proofs", "/", "proved">>
C14_TablePaths ==
    \A c \in CallIds :
        (Started(c) /\ RequestOf(c).variant \notin {"ListProofs", "ListCloudInstances"}) =>
            endpoint(RequestOf(c)) = TablePath(RequestOf(c))
C14_EndpointsDistinct ==
    /\ C14_TablePaths
    /\ \A c, d \in CallIds :
          (Started(c) /\ Started(d) /\ RequestOf(c).variant # RequestOf(d).variant) =>
              <<method(RequestOf(c)), endpoint(RequestOf(c))>>
                  # <<method(RequestOf(d)), endpoint(RequestOf(d))>>

(***************************************************************************)
(* What "the JSON of the payload" is, written from the payload types: a    *)
(* field is a member of the object under its own name; an optional field   *)
(* marked skip_serializing_if is left out when it is None and written bare *)
(* otherwise.                                                              *)
(***************************************************************************)
OmittedWhenNone ==
    [request |-> {"description", "hardware", "cycle_type", "proof_type"},
     machine |-> {"gpu_models", "gpu_count", "gpu_memory_gb", "storage_size_gb",
                  "total_tera_flops", "network_between_machines"}]
FieldsAgree(v, q, omitted, nested) ==
    /\ DOMAIN v = {k \in DOMAIN q : ~(k \in omitted /\ IsNone(q[k]))}
    /\ \A k \in DOMAIN v \ nested : v[k] = IF k \in omitted THEN q[k][1] ELSE q[k]
MachineJson(v, m) == FieldsAgree(v, m, OmittedWhenNone.machine, {})
ConfigurationJson(v, c) ==
    /\ DOMAIN v = DOMAIN c
    /\ \A k \in DOMAIN c \ {"machine"} : v[k] = c[k]
    /\ MachineJson(v.machine, c.machine)
ProvedJson(v, q) ==
    /\ DOMAIN v = DOMAIN q
    /\ \A k \in DOMAIN q :
          IF k \in {"proving_cycles", "verifier_id"}
          THEN (IF IsNone(q[k]) THEN v[k] = JNull ELSE v[k] = q[k][1])
          ELSE v[k] = q[k]
JsonOfPayload(v, req) ==
    LET q == req.payload IN
    CASE req.variant = "CreateCluster" ->
            /\ FieldsAgree(v, q, OmittedWhenNone.request, {"configuration"})
            /\ Len(v.configuration) = Len(q.configuration)
            /\ \A i \in 1..Len(q.configuration) :
                  ConfigurationJson(v.configuration[i], q.configuration[i])
      [] req.variant = "CreateSingleMachine" ->
            /\ FieldsAgree(v, q, OmittedWhenNone.request, {"machine"})
            /\ MachineJson(v.machine, q.machine)
      [] req.variant \in {"QueuedProof", "ProvingProof"} -> v = q
      [] req.variant = "ProvedProof" -> ProvedJson(v, q)

\* C15: body() is None for the seven GET variants and Some(JSON of the
\* payload) for the five mutating variants, whose payloads serialize; so
\* the exchange of a call carries a body exactly when its method is POST.
C15_BodyExactlyWhenPost ==
    \A c \in CallIds :
        Started(c) =>
            LET req == RequestOf(c) IN
            /\ req.variant \in GetVariants => body(req) = None
            /\ req.variant \in PostVariants =>
                  /\ IsSome(body(req))
                  /\ JsonOfPayload(Unwrap(body(req)), req)
            /\ IsSome(SentBy(c).body) <=> SentBy(c).method = "POST"
            /\ SentBy(c).body = body(req)
\* A ProvedProof call whose body writes the absent proving_cycles as null.
C15_Witness ==
    /\ Started(1)
    /\ RequestOf(1).variant = "ProvedProof"
    /\ IsNone(RequestOf(1).payload.proving_cycles)
    /\ SentBy(1).method = "POST"
    /\ IsSome(SentBy(1).body)
    /\ Unwrap(SentBy(1).body).proving_cycles = JNull
    /\ "verifier_id" \in DOMAIN Unwrap(SentBy(1).body)

\* C16: a request built by a valid builder, turned into an EthProofsRequest,
\* has method POST, path /clusters and as body the JSON of the built
\* request, its absent optional fields left out.
BuiltRequest == Request("CreateCluster", Result.value)
C16_BuildRoundTrip ==
    (IsSome(built) /\ IsOk(Result)) =>
        /\ method(BuiltRequest) = "POST"
        /\ endpoint(BuiltRequest) = <<"/", "clusters">>
        /\ IsSome(body(BuiltRequest))
        /\ JsonOfPayload(Unwrap(body(BuiltRequest)), BuiltRequest)
\* A built request without description and without GPUs: neither appears in
\* the body.
C16_Witness ==
    /\ IsSome(built) /\ IsOk(Result)
    /\ IsNone(Result.value.description)
    /\ IsNone(Result.value.configuration[1].machine.gpu_models)
    /\ IsSome(Result.value.configuration[1].machine.storage_size_gb)
    /\ LET v == Unwrap(body(BuiltRequest)) IN
          /\ "description" \notin DOMAIN v
          /\ "nickname" \in DOMAIN v
          /\ "gpu_models" \notin DOMAIN v.configuration[1].machine
          /\ "storage_size_gb" \in DOMAIN v.configuration[1].machine

\* C17: when the serialization of a mutating variant's payload fails,
\* body() is None, call() still sends the one POST exchange, without a body,
\* and the call returns what the transport and the response determine: no
\* error value reports the serialization failure.
C17_SerializationFailureIsSilent ==
    \A c \in CallIds :
        (Started(c) /\ IsErr(to_value(RequestOf(c)))) =>
            /\ body(RequestOf(c)) = None
            /\ Len(calls[c].sent) = 1
            /\ SentBy(c).method = "POST"
            /\ SentBy(c).body = None
            /\ Returned(c) =>
                  /\ ResultOf(c) =
                        IF IsNone(calls[c].status) THEN Err(RequestError("send"))
                        ELSE classify(StatusOf(c), BodyOf(c), Unwrap(calls[c].rtype))
                  /\ IsErr(ResultOf(c)) =>
                        /\ ResultOf(c).err.kind \in {"RequestError", "ApiError", "ParseError"}
                        /\ ResultOf(c).err.kind = "RequestError" =>
                              ResultOf(c).err.cause \in {"send", "decode"}
\* A create-cluster call whose body was dropped and which returned Ok.
C17_Witness ==
    /\ Returned(1)
    /\ RequestOf(1).variant = "CreateCluster"
    /\ IsErr(to_value(RequestOf(1)))
    /\ SentBy(1).method = "POST" /\ SentBy(1).body = None
    /\ calls[1].status = Some(200)
    /\ IsOk(ResultOf(1))

\* C18: narrowing an EthProofsResponse to a response type succeeds exactly
\* when the value's variant is the one that wraps the type, and then gives
\* the wrapped payload unchanged; for every other variant it fails with the
\* parse error that names the type asked for.
Narrowed == IsSome(narrowing.outcome)
NarrowedValue == Unwrap(narrowing.value)
NarrowedTo == Unwrap(narrowing.target)
NarrowOutcome == Unwrap(narrowing.outcome)
C18_NarrowingByVariant ==
    Narrowed =>
        IF ResponseVariants[NarrowedValue.variant] = NarrowedTo
        THEN NarrowOutcome = Ok(NarrowedValue.payload)
        ELSE NarrowOutcome = Err(ParseErrorNaming(NarrowedTo))
\* ListClusters(_) narrowed as CreateClusterResponse fails naming it.
C18_Witness ==
    /\ Narrowed
    /\ NarrowedValue.variant = "ListClusters"
    /\ NarrowedTo = "CreateClusterResponse"
    /\ NarrowOutcome = Err(ParseErrorNaming("CreateClusterResponse"))

\* C19: every exchange call() issues, whatever the request variant, carries
\* Authorization: Bearer <the credential given at construction>, and carries
\* a JSON body exactly when body() of the request is present (that body).
C19_AuthorizedExchange ==
    \A c \in CallIds :
        Started(c) =>
            \A i \in 1..Len(calls[c].sent) :
                LET ex == calls[c].sent[i] IN
                /\ ex.authorization = <<"Bearer ", ctor.api_key>>
                /\ IsSome(ex.body) <=> IsSome(body(RequestOf(c)))
                /\ ex.body = body(RequestOf(c))
\* A read on the staging client: its own credential, no body.
C19_Witness ==
    /\ Started(1)
    /\ ctor.fn = "staging" /\ ctor.api_key = "key-B"
    /\ RequestOf(1).variant = "ListProofs"
    /\ SentBy(1).authorization = <<"Bearer ", "key-B">>
    /\ SentBy(1).body = None

\* C20: each of the twelve endpoints has a convenience operation that
\* dispatches the request variant of the endpoint and decodes into the
\* response type of the same endpoint, so that no caller of a single
\* endpoint goes through the generic call: every call that is started is one
\* a convenience operation starts.
C20_EveryEndpointHasConvenience ==
    \A c \in CallIds :
        Started(c) =>
            \E m \in ConvenienceMethods :
                /\ m.variant = RequestOf(c).variant
                /\ m.rtype = ResponseVariants[m.variant]
                /\ calls[c].rtype = Some(m.rtype)

(***************************************************************************)
(* Vocabulary of the lifecycle properties: the status an exchange asks     *)
(* for, read from its path, and the proof it is about, read from its body. *)
(***************************************************************************)
PathOf(ex) == SubSeq(ex.url, Len(client.base_url) + 1, Len(ex.url))
StatusAsked(ex) ==
    CASE PathOf(ex) = <<"/", "proofs", "/", "queue">> -> "queued"
      [] PathOf(ex) = <<"/", "proofs", "/", "proving">> -> "proving"
      [] PathOf(ex) = <<"/", "proofs", "/", "proved">> -> "proved"
      [] OTHER -> "none"
Rank(status) == CASE status = "queued" -> 1 [] status = "proving" -> 2 [] status = "proved" -> 3
ProofOf(ex) == <<Unwrap(ex.body).block_number, Unwrap(ex.body).cluster_id>>

\* C21 as stated: the transitions requested through the client for one
\* block and cluster never go backwards (Queued, then Proving, then Proved).
C21_NoReverseTransition ==
    \A i, j \in 1..Len(service.processed) :
        (i < j /\ ProofOf(service.processed[i]) = ProofOf(service.processed[j])) =>
            Rank(StatusAsked(service.processed[i])) <= Rank(StatusAsked(service.processed[j]))

\* C21 as the code has it: a status is one of Queued, Proving, Proved, and
\* each transition call asks for exactly the status of its own operation,
\* for the block and cluster it was given; the order of the transitions is
\* the caller's, the client keeps no record of the ones sent before.
C21_TransitionAsGiven ==
    /\ \A i \in 1..Len(service.processed) : StatusAsked(service.processed[i]) \in ProofStatus
    /\ \A c \in CallIds :
          Started(c) =>
              /\ StatusAsked(SentBy(c)) = TransitionStatus[RequestOf(c).variant]
              /\ ProofOf(SentBy(c)) =
                    <<RequestOf(c).payload.block_number, RequestOf(c).payload.cluster_id>>
\* Proved, then queued again, for the same block and cluster: both sent.
C21_Witness ==
    /\ Len(service.processed) = 2
    /\ StatusAsked(service.processed[1]) = "proved"
    /\ StatusAsked(service.processed[2]) = "queued"
    /\ ProofOf(service.processed[1]) = ProofOf(service.processed[2])
    /\ Started(1) /\ SentBy(1) = service.processed[2]

\* C22: a request with pagination fields (ListProofsRequest is the one that
\* has them) that was given no limit carries limit = 100, given no offset
\* carries offset = 0, and the path derived from a request given neither
\* ends with limit=100&offset=0.
EndOf(text, n) == SubSeq(text, Len(text) - n + 1, Len(text))
C22_PaginationDefaults ==
    IsSome(decoded.request) =>
        LET obj == Unwrap(decoded.json)
            q == Unwrap(decoded.request)
        IN  /\ "limit" \notin DOMAIN obj => q.limit = 100
            /\ "offset" \notin DOMAIN obj => q.offset = 0
            /\ "limit" \in DOMAIN obj => q.limit = obj.limit.n
            /\ "offset" \in DOMAIN obj => q.offset = obj.offset.n
            /\ (IsSome(decoded.path) /\ {"limit", "offset"} \cap DOMAIN obj = {}) =>
                  /\ Len(Unwrap(decoded.path)) >= 7
                  /\ EndOf(Unwrap(decoded.path), 7) =
                        <<"limit", "=", "100", "&", "offset", "=", "0">>
\* A request given only a block filter: its path carries both defaults.
C22_Witness ==
    /\ IsSome(decoded.path)
    /\ DOMAIN Unwrap(decoded.json) = {"block"}
    /\ Unwrap(decoded.path) =
          <<"/", "proofs", "?", "block", "=", "1", "&", "limit", "=", "100", "&",
            "offset", "=", "0">>

\* C23: every CreateClusterRequest that build() returns keeps the maximum
\* lengths documented on its fields: nickname at most 50 characters,
\* description and hardware at most 200, cycle_type and proof_type at most
\* 50 when present.
WithinChars(o, max) == IsSome(o) => char_count(Unwrap(o)) <= max
C23_BuiltWithinDocumentedMax ==
    (IsSome(built) /\ IsOk(Result)) =>
        LET q == Result.value IN
        /\ char_count(q.nickname) <= 50
        /\ WithinChars(q.description, 200)
        /\ WithinChars(q.hardware, 200)
        /\ WithinChars(q.cycle_type, 50)
        /\ WithinChars(q.proof_type, 50)

(***************************************************************************)
(* The documented limits of the top-level fields, in characters: the       *)
(* fields of a builder that break them.                                    *)
(***************************************************************************)
TopOffending(b) ==
    {f \in {"nickname"} : char_count(b.nickname[1]) > 50}
    \cup {f \in {"description", "hardware"} : IsSome(b[f]) /\ char_count(b[f][1]) > 200}
    \cup {f \in {"cycle_type", "proof_type"} : IsSome(b[f]) /\ char_count(b[f][1]) = 0}
    \cup {f \in {"zkvm_version_id"} : b.zkvm_version_id[1] = 0}
Names(result, f) ==
    IsErr(result) /\ result.err.kind = "InvalidField" /\ result.err.field = <<f>>

\* C24: with the three required fields set, build() fails with InvalidField
\* naming an offending field when the nickname has more than 50 characters,
\* description or hardware more than 200, cycle_type or proof_type is set
\* and empty, or zkvm_version_id is 0; a nickname of up to 50 characters is
\* accepted.
TopOffendingRejected ==
    (IsSome(built) /\ Unset(builder) = {}) =>
        (TopOffending(builder) # {} => \E f \in TopOffending(builder) : Names(Result, f))
NicknameAtLimitAccepted ==
    (IsSome(built) /\ Unset(builder) = {}) =>
        (char_count(builder.nickname[1]) <= 50 => ~Names(Result, "nickname"))
C24_TopLevelLimits == TopOffendingRejected /\ NicknameAtLimitAccepted

(***************************************************************************)
(* The count constraints of a configuration list: the list is empty, or    *)
(* an element has a count of 0.  ZeroCount is the first such element.      *)
(***************************************************************************)
HasZeroCount(c) == c.machine_count = 0 \/ c.cloud_instance_count = 0
ZeroCounts(cs) == {k \in 1..Len(cs) : HasZeroCount(cs[k])}
CountsBroken(cs) == Len(cs) = 0 \/ ZeroCounts(cs) # {}
CountField(cs) ==
    IF Len(cs) = 0 THEN "configuration"
    ELSE LET k == CHOOSE k \in ZeroCounts(cs) : \A h \in ZeroCounts(cs) : k <= h IN
         IF cs[k].machine_count = 0 THEN "machine_count" ELSE "cloud_instance_count"
\* Nothing that build() checks before the first zero count fails.
NothingEarlierFails(b) ==
    LET cs == b.configuration[1] IN
    /\ Unset(b) = {}
    /\ TopSetOk(b, str_len)
    /\ \A k \in 1..Len(cs) :
          (\A h \in ZeroCounts(cs) : k < h) => ConfigOk(cs[k], str_len)

\* C25 as stated: an empty configuration list, or an element with
\* machine_count = 0 or cloud_instance_count = 0, makes build() fail with
\* InvalidField naming configuration, machine_count or cloud_instance_count.
C25_ZeroCountIsInvalidField ==
    (IsSome(built) /\ IsSome(builder.configuration)
        /\ CountsBroken(builder.configuration[1])) =>
        \E f \in {"configuration", "machine_count", "cloud_instance_count"} : Names(Result, f)

\* C25 as the code has it: build() fails, and the error is InvalidField
\* naming configuration, machine_count or cloud_instance_count respectively
\* when no check that build() runs earlier fails; otherwise it is the error
\* of that earlier check.
C25_ZeroCountRejected ==
    (IsSome(built) /\ IsSome(builder.configuration)
        /\ CountsBroken(builder.configuration[1])) =>
        /\ IsErr(Result)
        /\ NothingEarlierFails(builder) =>
              Names(Result, CountField(builder.configuration[1]))
        /\ ~NothingEarlierFails(builder) =>
              Result = Err(AllChecks(builder)[FirstFailing(AllChecks(builder))].err)
\* A valid element followed by one whose cloud_instance_count is 0.
C25_Witness ==
    /\ IsSome(built) /\ IsSome(builder.configuration)
    /\ Len(builder.configuration[1]) = 2
    /\ ConfigOk(builder.configuration[1][1], str_len)
    /\ builder.configuration[1][2].machine_count > 0
    /\ builder.configuration[1][2].cloud_instance_count = 0
    /\ Names(Result, "cloud_instance_count")

(***************************************************************************)
(* The documented limits of one machine, in characters: the fields (with   *)
(* the element index for array fields) that break them.                    *)
(***************************************************************************)
Indexed(name, S) == {<<name, i - 1>> : i \in S}
MachineOffending(m) ==
    {<<f>> : f \in {f \in {"cpu_cores"} : m.cpu_cores = 0}}
    \cup {<<f>> : f \in {f \in {"cpu_model"} : char_count(m.cpu_model) > 200}}
    \cup Indexed("gpu_models",
                 {i \in 1..OptLen(m.gpu_models) : char_count(m.gpu_models[1][i]) > 200})
    \cup Indexed("gpu_count", {i \in 1..OptLen(m.gpu_count) : m.gpu_count[1][i] = 0})
    \cup Indexed("gpu_memory_gb",
                 {i \in 1..OptLen(m.gpu_memory_gb) : m.gpu_memory_gb[1][i] = 0})
    \cup Indexed("memory_size_gb", {i \in 1..Len(m.memory_size_gb) : m.memory_size_gb[i] = 0})
    \cup Indexed("memory_count", {i \in 1..Len(m.memory_count) : m.memory_count[i] = 0})
    \cup Indexed("memory_type",
                 {i \in 1..Len(m.memory_type) : char_count(m.memory_type[i]) > 200})
    \cup {<<f>> : f \in {f \in {"storage_size_gb", "total_tera_flops"} :
                            IsSome(m[f]) /\ m[f][1] = 0}}
    \cup {<<f>> : f \in {f \in {"network_between_machines"} :
                            IsSome(m[f]) /\ char_count(m[f][1]) > 500}}
Consistent(m) == GpuLengthsEqual(m) /\ MemoryLengthsOk(m)
\* Element k is the first that build() can fail on, and only on its machine.
ReachesMachine(b, k) ==
    LET cs == b.configuration[1] IN
    /\ Unset(b) = {} /\ TopSetOk(b, str_len)
    /\ \A h \in 1..(k - 1) : ConfigOk(cs[h], str_len)
    /\ ~HasZeroCount(cs[k])
    /\ Consistent(cs[k].machine)

\* C26: a structurally consistent machine with a zero count or size, or a
\* text longer than its maximum, makes build() fail with InvalidField naming
\* such a field (with the element index for array fields); a machine whose
\* values are within the limits, the limit itself included, is accepted.
MachineOffendingRejected ==
    IsSome(built) =>
        \A k \in 1..OptLen(builder.configuration) :
            (ReachesMachine(builder, k)
                /\ MachineOffending(builder.configuration[1][k].machine) # {}) =>
                /\ IsErr(Result) /\ Result.err.kind = "InvalidField"
                /\ Result.err.field \in MachineOffending(builder.configuration[1][k].machine)
MachineAtLimitAccepted ==
    (IsSome(built) /\ Unset(builder) = {} /\ TopSetOk(builder, str_len)
        /\ OptLen(builder.configuration) > 0
        /\ \A k \in 1..OptLen(builder.configuration) :
              ConfigOk(builder.configuration[1][k], char_count)) =>
        IsOk(Result)
C26_MachineLimits == MachineOffendingRejected /\ MachineAtLimitAccepted

\* C27: build() never indexes out of bounds: for every presence and length
\* of the GPU arrays and every length of the memory arrays it returns Ok or
\* Err; an element whose arrays differ in length is answered before any
\* indexed read, so the result for it is an error and never a panic.
C27_BuildNeverPanics ==
    IsSome(built) =>
        /\ Result.tag \in {"Ok", "Err"}
        /\ (\E k \in 1..OptLen(builder.configuration) :
               LET m == builder.configuration[1][k].machine IN
               \/ ~GpuLengthsEqual(m)
               \/ Len(m.memory_count) # Len(m.memory_size_gb)
               \/ Len(m.memory_type) # Len(m.memory_size_gb)) => IsErr(Result)
\* Two GPU models with one count: gpu_count[1] would be read past the end.
C27_Witness ==
    /\ IsSome(built)
    /\ \E k \in 1..OptLen(builder.configuration) :
          LET m == builder.configuration[1][k].machine IN
          /\ OptLen(m.gpu_models) = 2 /\ OptLen(m.gpu_count) = 1
          /\ \A i \in 1..2 : str_len(m.gpu_models[1][i]) <= 200
          /\ m.gpu_count[1][1] > 0
    /\ Result = Err(MalformedRequest(MsgGpuLen))

(***************************************************************************)
(* The configuration elements that some check of build() rejects, and the  *)
(* error of the first check, in the order of the loop body, that rejects   *)
(* a given element.                                                        *)
(***************************************************************************)
InvalidElements(cs) == {k \in 1..Len(cs) : Failing(ElementChecks(cs[k])) # {}}
EarliestInvalid(cs) ==
    CHOOSE k \in InvalidElements(cs) : \A h \in InvalidElements(cs) : k <= h
ElementError(c) == ElementChecks(c)[FirstFailing(ElementChecks(c))].err
\* build() gets as far as the loop over the elements.
ReachesLoop(b) ==
    /\ Unset(b) = {}
    /\ Failing(TopChecks(b)) = {}

\* C28: when configuration elements are invalid, the error build() returns
\* is the error of the earliest invalid element in list order, namely of the
\* first of its checks (counts, CPU, GPU structure, GPU elements, memory
\* structure, memory elements, optional fields) that fails; the violation of
\* a later element is reported only if every earlier element is fully valid.
C28_EarliestInvalidElementReported ==
    (IsSome(built) /\ ReachesLoop(builder)
        /\ InvalidElements(builder.configuration[1]) # {}) =>
        LET cs == builder.configuration[1]
            k  == EarliestInvalid(cs)
        IN  /\ Result = Err(ElementError(cs[k]))
            /\ \A h \in 1..(k - 1) :
                  /\ ConfigOk(cs[h], str_len)
                  /\ ConfigOk(cs[h], char_count)
\* Two invalid elements whose errors differ: the first one's is returned.
C28_Witness ==
    /\ IsSome(built) /\ ReachesLoop(builder)
    /\ Len(builder.configuration[1]) = 2
    /\ InvalidElements(builder.configuration[1]) = {1, 2}
    /\ builder.configuration[1][1].machine_count > 0
    /\ builder.configuration[1][1].cloud_instance_count > 0
    /\ builder.configuration[1][2].machine_count = 0
    /\ ElementError(builder.configuration[1][1]) # ElementError(builder.configuration[1][2])
    /\ Result = Err(ElementError(builder.configuration[1][1]))

(***************************************************************************)
(* The request a caller expects from the arguments passed to the setters:  *)
(* the latest argument of each setter, None for an optional field whose    *)
(* setter was not called.                                                  *)
(***************************************************************************)
RequestGiven ==
    [nickname |-> Unwrap(given.nickname),
     description |-> given.description,
     zkvm_version_id |-> Unwrap(given.zkvm_version_id),
     hardware |-> given.hardware,
     cycle_type |-> given.cycle_type,
     proof_type |-> given.proof_type,
     configuration |-> Unwrap(given.configuration)]

\* C29: setters are last-write-wins and touch only their own field, and
\* build() normalizes nothing: every builder field holds the value most
\* recently given to its setter (None when the setter was never called), and
\* when build() succeeds every field of the returned request equals that
\* value, whatever the order in which the setters were called.
C29_BuildReturnsLastGiven ==
    /\ \A f \in BuilderFields : builder[f] = given[f]
    /\ (IsSome(built) /\ IsOk(Result)) =>
          /\ \A f \in Required : IsSome(given[f])
          /\ Result.value = RequestGiven
\* A successful build() after description was never set and cycle_type was.
C29_Witness ==
    /\ IsSome(built) /\ IsOk(Result)
    /\ IsNone(given.description) /\ IsSome(given.cycle_type)
    /\ Result.value.description = None
    /\ Result.value.cycle_type = given.cycle_type
    /\ Result.value.nickname = Unwrap(given.nickname)

\* C30: call() classifies an exchange in a fixed order: a failure of send()
\* gives RequestError and no status is read; otherwise a non-2xx status
\* gives ApiError whatever the body; otherwise a 2xx body that cannot be read
\* or is not JSON gives RequestError, not ParseError; otherwise a JSON value
\* that the requested type does not accept gives ParseError; otherwise the
\* call is Ok.  call() never returns InvalidURL.
C30_ClassificationOrder ==
    \A c \in CallIds :
        Returned(c) =>
            LET r == ResultOf(c) IN
            /\ r # Err(InvalidURL)
            /\ IsNone(calls[c].status) =>
                  (r = Err(RequestError("send")) /\ IsNone(calls[c].body))
            /\ IsSome(calls[c].status) =>
                  IF StatusOf(c) \notin 200..299
                  THEN IsErr(r) /\ r.err.kind = "ApiError" /\ r.err.status = StatusOf(c)
                  ELSE IF BodyOf(c).kind # "json"
                  THEN r = Err(RequestError("decode"))
                  ELSE IF IsErr(from_value(Unwrap(calls[c].rtype), BodyOf(c).json))
                  THEN r = Err(ParseError)
                  ELSE IsOk(r)
\* A call answered 200 with a body that is not JSON: RequestError.
C30_Witness ==
    /\ Returned(1) /\ calls[1].status = Some(200) /\ calls[1].body = Some(Text(""))
    /\ IsErr(response_json(Text("")))
    /\ ResultOf(1) = Err(RequestError("decode"))

====
